---- MODULE Spec2Model ----
(***************************************************************************)
(* Model of the gdrive-sync core: the change detector over the persisted   *)
(* file index (src/drive/change_detector.py, src/database/db_manager.py,   *)
(* src/drive/service_drive_client.py), the retrying error handler          *)
(* (src/error_handler.py), the task scheduler (src/scheduler.py), the      *)
(* polling system (src/drive/polling_system.py) and the database manager   *)
(* under threads and storage errors.                                       *)
(*                                                                         *)
(* Each component has its own specification (SpecDetect and its variants   *)
(* SpecDetectHttpError, SpecDetectListedTwice, SpecDetectRestore and       *)
(* SpecDetectDbErrors, SpecTwoPolls, SpecRetry, SpecSched and its variants *)
(* SpecStatuses and SpecStartStop, SpecPoll, SpecPollingLoop,              *)
(* SpecPollingThreads, SpecScheduledPoll, SpecDb, SpecPath, SpecList,      *)
(* SpecStop); the variables of the other components stay at their initial  *)
(* values.                                                                 *)
(***************************************************************************)
EXTENDS Integers, Sequences, FiniteSets, TLC

(***************************************************************************)
(* Bounds of the model.                                                    *)
(***************************************************************************)
\* number of remote files that can exist
NumFiles == 2
\* seconds values a remote modifiedTime can carry
MaxSec == 1
\* detection passes in one behaviour
MaxPasses == 3
\* changes made to the remote tree in one behaviour
MaxRemoteOps == 2
\* largest max_retries an ErrorHandler is constructed with
MaxRetriesBound == 2
\* largest retry_delay_seconds an ErrorHandler is constructed with
MaxDelay == 2
\* execute_with_retry() calls in one behaviour
MaxCalls == 3
\* seconds the scheduler's clock runs
MaxClock == 2
\* largest interval_seconds of a task
MaxInterval == 2
\* calls of the scheduler's methods in one behaviour
MaxApiCalls == 3
\* handlers registered at one time, over all event types
MaxCallbacks == 2
\* words in the message of an exception of the detection pass
MaxMsgLen == 1
\* polls in one behaviour
MaxPolls == 2
\* DatabaseManager calls in one behaviour
MaxDbCalls == 2
\* folders below the tracked root that a parent chain can pass through
NumChainFolders == 2
\* folders of a remote tree whose folders may contain one another
NumListFolders == 3

VARIABLES
    \* ---- change detection ----
    drive,           \* the remote tree: file id -> modifiedTime string
    files,           \* table `files` of the index: id -> row
    sync_history,    \* table `sync_history`: sequence of entries
    new_files,       \* result lists of the most recent detect_changes()
    modified_files,
    deleted_files,
    passes,          \* number of detect_changes() calls made
    remote_ops,      \* number of remote changes made
    seen,            \* history: ids -> modifiedTime enumerated by the last pass
    pre_files,       \* history: table `files` as the last pass found it
    stable,          \* history: consecutive passes with the same enumeration
    new_count,       \* history: id -> number of passes that listed it as new
    repeated,        \* history: ids the last pass's enumeration held more than once
    fault_log,       \* history: the storage failures of the last pass
    \* ---- error handler ----
    max_retries,         \* ErrorHandler.max_retries
    retry_delay_seconds, \* ErrorHandler.retry_delay_seconds
    error_counts,        \* ErrorHandler.error_counts: op name -> count
    last_errors,         \* ErrorHandler.last_errors: op name -> exception
    ex_pc,               \* where the execute_with_retry() call stands
    op_name,             \* its op_name
    retries,             \* its local `retries`
    ex_ret,              \* its return value
    calls,               \* number of execute_with_retry() calls started
    ex_trace,            \* history: attempts and sleeps of the call, in order
    count_before,        \* history: error count of op_name when the call began
    \* ---- scheduler ----
    tasks,           \* Scheduler.tasks: task id -> task_info
    task_order,      \* the order in which the dict `tasks` iterates
    running,         \* Scheduler.running
    thread,          \* Scheduler.thread
    lock,            \* holder of Scheduler.lock, or NoThread
    clock,           \* datetime.now(), in seconds
    lp_pc,           \* per loop thread: where _scheduler_loop stands
    lp_now,          \* per loop thread: its local `now`
    lp_idx,          \* per loop thread: position in tasks.items()
    lp_wake,         \* per loop thread: when its sleep(1) ends
    c_pc,            \* per caller thread: where run_task_now stands
    c_task,          \* per caller thread: its task_id
    c_ret,           \* per caller thread: what its last run_task_now returned
    c_all,           \* per caller thread: its get_all_task_statuses call
    api_calls,       \* number of method calls made
    tick_done,       \* history, per loop thread: tasks dispatched in its current tick
    task_log,        \* history, per task id: when it was added and fired
    \* ---- polling system ----
    callbacks,       \* PollingSystem.callbacks: event type -> list of handlers
    p_running,       \* PollingSystem.running
    pl_pc,           \* where the thread of _polling_loop stands
    poll_by,         \* who runs the poll in progress: poll_now() or the loop
    poll_pc,         \* where the poll in progress stands
    poll_lists,      \* (new_files, modified_files, deleted_files) of the poll
    poll_pos,        \* position of the dispatch: event type, file, handler
    poll_ret,        \* what the last poll_now() returned or raised
    polls,           \* number of polls begun
    poll_trace,      \* history: the handler invocations of the poll
    raised_at,       \* history: index in poll_trace of the first that raised
    detect_exc,      \* history: the message the detection pass raised
    \* ---- database manager under threads and storage errors ----
    db_store,        \* the database file: committed rows of `files`, `sync_history`
    db_dirty,        \* the open write transaction: its connection's thread and rows
    db_lock,         \* holder of DatabaseManager._lock, or NoThread
    db_conn,         \* per thread: whether _local.conn is set
    db_pc,           \* per thread: where its DatabaseManager call stands
    db_call,         \* per thread: the operation called and its arguments
    db_exists,       \* per thread: `exists` of its upsert_file
    db_ret,          \* per thread: what its last call returned or raised
    db_calls,        \* number of calls made
    db_error,        \* history, per thread: the sqlite3 error its call hit
    \* ---- build_file_path over any parent chain ----
    bp_meta,         \* what get_file_metadata answers: folder id -> metadata
    bp_index,        \* the records of folders in the index: folder id -> row
    bp_parent,       \* parent_id of the build_file_path call made
    bp_ret,          \* what the call returned or raised
    \* ---- list_all_files over any folder graph ----
    ls_children,     \* the remote tree: folder id -> folders listed in it
    ls_pc,           \* where the call stands
    ls_queue,        \* folders_to_process
    ls_processed,    \* processed_folders
    ls_all_files,    \* all_files
    ls_expanded,     \* history: folder id -> list_files calls made for it
    \* ---- the initial poll and the first tick, side by side ----
    cp_pc,           \* per thread: where its poll stands
    cp_dict,         \* per thread: db_files_dict of its pass
    cp_keys,         \* per thread: keys of drive_files_dict still to classify
    cp_lists,        \* per thread: new_files, modified_files, deleted_files
    cp_triggered,    \* per thread: ids its new_file callbacks were called with
    cp_before,       \* history: index and history length when the first began
    \* ---- the threads of PollingSystem._polling_loop ----
    pt_pc,           \* per polling thread: where it stands
    pt_left,         \* per polling thread: seconds of its sleep still to go
    pt_thread,       \* PollingSystem.thread
    pt_join,         \* stop() is in its join
    pt_ret           \* what the last start() or stop() returned

DetectVars == <<drive, files, sync_history, new_files, modified_files,
                deleted_files, passes, remote_ops, seen, pre_files, stable,
                new_count, repeated, fault_log>>

RetryVars == <<max_retries, retry_delay_seconds, error_counts, last_errors,
               ex_pc, op_name, retries, ex_ret, calls, ex_trace, count_before>>

SchedVars == <<tasks, task_order, running, thread, lock, clock, lp_pc, lp_now,
               lp_idx, lp_wake, c_pc, c_task, c_ret, c_all, api_calls, tick_done,
               task_log>>

PollVars == <<callbacks, p_running, pl_pc, poll_by, poll_pc, poll_lists, poll_pos,
              poll_ret, polls, poll_trace, raised_at, detect_exc>>

DbVars == <<db_store, db_dirty, db_lock, db_conn, db_pc, db_call, db_exists,
            db_ret, db_calls, db_error>>

PathVars == <<bp_meta, bp_index, bp_parent, bp_ret>>

ListVars == <<ls_children, ls_pc, ls_queue, ls_processed, ls_all_files,
              ls_expanded>>

TwoPollsVars == <<cp_pc, cp_dict, cp_keys, cp_lists, cp_triggered, cp_before>>

PollThreadVars == <<pt_pc, pt_left, pt_thread, pt_join, pt_ret>>

vars == <<DetectVars, RetryVars, SchedVars, PollVars, DbVars, PathVars, ListVars,
          TwoPollsVars, PollThreadVars>>

\* the variables each component's steps leave alone
OtherThanDetect == <<RetryVars, SchedVars, PollVars, DbVars, PathVars, ListVars, TwoPollsVars,
    PollThreadVars>>
OtherThanRetry == <<DetectVars, SchedVars, PollVars, DbVars, PathVars, ListVars, TwoPollsVars,
    PollThreadVars>>
OtherThanSched == <<DetectVars, RetryVars, PollVars, DbVars, PathVars, ListVars, TwoPollsVars,
    PollThreadVars>>
OtherThanPoll == <<DetectVars, SchedVars, DbVars, PathVars, ListVars, TwoPollsVars,
    PollThreadVars>>
OtherThanList == <<DetectVars, RetryVars, SchedVars, PollVars, DbVars, PathVars, TwoPollsVars,
    PollThreadVars>>
OtherThanTwoPolls == <<RetryVars, SchedVars, PollVars, DbVars, PathVars, ListVars,
    PollThreadVars>>
OtherThanPollThreads == <<DetectVars, RetryVars, SchedVars, DbVars, PathVars, ListVars,
    TwoPollsVars>>
OtherThanDb == <<DetectVars, RetryVars, SchedVars, PollVars, PathVars, ListVars, TwoPollsVars,
    PollThreadVars>>
OtherThanPath == <<DetectVars, RetryVars, SchedVars, PollVars, DbVars, ListVars, TwoPollsVars,
    PollThreadVars>>

(***************************************************************************)
(* Remote tree.  Folder ids and file ids; the folder skeleton is fixed:    *)
(* the tracked root holds the sub folder, odd file ids live in the root,   *)
(* even ones in the sub folder.  Files appear, disappear and change their  *)
(* modifiedTime.                                                           *)
(***************************************************************************)
\* an empty dict
EmptyMap == [x \in {} |-> 0]
FileIds == 1..NumFiles
\* drive_client.folder_id, the tracked root
RootFolder == 0
SubFolder == NumFiles + 1
Folders == {RootFolder, SubFolder}
FolderOf(id) == IF id % 2 = 1 THEN RootFolder ELSE SubFolder
SubFoldersOf(folder) == IF folder = RootFolder THEN <<SubFolder>> ELSE <<>>
\* names are the ids themselves; a path is the sequence of its components
NameOf(id) == id
\* a dict without the key 'parents' / a parent_id of None
NoParent == -1

(***************************************************************************)
(* modifiedTime strings.  A string is described by what strptime looks at: *)
(* the seconds value, the fractional part (NoFrac when the string has no   *)
(* ".ffffff"), and whether it ends in the literal Z.  Besides well-formed  *)
(* strings there are a string matching no format and a missing value.      *)
(***************************************************************************)
NoFrac == -1
Fracs == {NoFrac, 5}
TextTimes == [kind : {"text"}, sec : 1..MaxSec, frac : Fracs, z : BOOLEAN]
GarbageTime == [kind |-> "garbage", sec |-> 0, frac |-> NoFrac, z |-> FALSE]
MissingTime == [kind |-> "missing", sec |-> 0, frac |-> NoFrac, z |-> FALSE]
TimeStrings == TextTimes \cup {GarbageTime, MissingTime}

\* the four formats tried by _parse_timestamp, in its order
Formats == << [frac |-> TRUE,  z |-> TRUE],
              [frac |-> FALSE, z |-> TRUE],
              [frac |-> TRUE,  z |-> FALSE],
              [frac |-> FALSE, z |-> FALSE] >>

\* datetime.strptime(s, fmt) succeeds
StrptimeMatches(s, fmt) ==
    /\ s.kind = "text"
    /\ (s.frac # NoFrac) = fmt.frac
    /\ s.z = fmt.z

\* the datetime strptime returns: seconds and microseconds ("no datetime" is NoTime)
NoTime == [valid |-> FALSE, sec |-> 0, micro |-> 0]
Strptime(s, fmt) ==
    [valid |-> TRUE, sec |-> s.sec, micro |-> IF fmt.frac THEN s.frac ELSE 0]

RECURSIVE TryFormats(_, _)
TryFormats(s, i) ==
    IF i > Len(Formats) THEN NoTime
    ELSE IF StrptimeMatches(s, Formats[i]) THEN Strptime(s, Formats[i])
    ELSE TryFormats(s, i + 1)

_parse_timestamp(s) ==
    IF s.kind = "missing" THEN NoTime ELSE TryFormats(s, 1)

DatetimeGreaterOrEqual(a, b) ==
    \/ a.sec > b.sec
    \/ a.sec = b.sec /\ a.micro >= b.micro

\* datetime a > datetime b
DatetimeGreater(a, b) ==
    \/ a.sec > b.sec
    \/ a.sec = b.sec /\ a.micro > b.micro

(***************************************************************************)
(* ServiceDriveClient.list_files / list_all_files.                         *)
(***************************************************************************)
RECURSIVE FilesIn(_, _, _)
\* the non-folder entries of `folder`, as dicts, in ascending id order from id
FilesIn(d, folder, id) ==
    IF id > NumFiles THEN <<>>
    ELSE (IF id \in DOMAIN d /\ FolderOf(id) = folder
          THEN << [id |-> id, name |-> NameOf(id), modifiedTime |-> d[id]] >>
          ELSE <<>>) \o FilesIn(d, folder, id + 1)

\* list_files over all pages of one folder; an HttpError is caught and
\* yields an empty listing.  Returns the file dicts and the folder ids.
list_files(d, folder, failed) ==
    IF folder \in failed
    THEN [files |-> <<>>, folders |-> <<>>]
    ELSE [files |-> FilesIn(d, folder, 1), folders |-> SubFoldersOf(folder)]

\* a loop that would look at no set of processed folders
NeverProcessed(current_folder, processed_folders) == FALSE

\* `current_folder in processed_folders` (line 112)
AlreadyProcessed(current_folder, processed_folders) ==
    current_folder \in processed_folders

RECURSIVE ListLoop(_, _, _, _, _)
ListLoop(d, failed, folders_to_process, processed_folders, all_files) ==
    IF folders_to_process = <<>> THEN all_files
    ELSE LET current_folder == Head(folders_to_process)
             rest == Tail(folders_to_process)
         IN IF AlreadyProcessed(current_folder, processed_folders)
            THEN ListLoop(d, failed, rest, processed_folders, all_files)
            ELSE LET page == list_files(d, current_folder, failed)
                 IN ListLoop(d, failed, rest \o page.folders,
                             processed_folders \cup {current_folder},
                             all_files \o page.files)

list_all_files(d, failed) == ListLoop(d, failed, <<RootFolder>>, {}, <<>>)

(***************************************************************************)
(* list_all_files over any folder graph: NumListFolders folders, the root  *)
(* among them, each listing any of the other folders and one file of its   *)
(* own, so that folders lie on cycles of two and more folders and are      *)
(* listed in several folders.  A listing that failed is a listing with no  *)
(* entries (list_files, lines 87-89), which the graphs with an empty       *)
(* folder cover.                                                           *)
(***************************************************************************)
ListFolders == 0..(NumListFolders - 1)

RECURSIVE Ascending(_)
Ascending(S) ==
    IF S = {} THEN <<>>
    ELSE LET least == CHOOSE x \in S : \A y \in S : x <= y
         IN <<least>> \o Ascending(S \ {least})

\* the entries list_files returns for a folder, over all its pages
Listing(children, folder) ==
    LET AsFolder(i) == [id |-> Ascending(children[folder])[i], is_folder |-> TRUE]
    IN [i \in 1..Cardinality(children[folder]) |-> AsFolder(i)]
       \o <<[id |-> folder, is_folder |-> FALSE]>>

IsFolderEntry(file) == file.is_folder
IsFileEntry(file) == ~file.is_folder
IdsOfEntries(entries) == [i \in 1..Len(entries) |-> entries[i].id]

\* the trees: what each folder lists
FolderGraphs ==
    {children \in [ListFolders -> SUBSET ListFolders] :
        \A f \in ListFolders : f \notin children[f]}

ListAtRest ==
    /\ ls_children = [f \in ListFolders |-> {}]
    /\ ls_pc = "idle"
    /\ ls_queue = <<>>
    /\ ls_processed = {}
    /\ ls_all_files = <<>>
    /\ ls_expanded = [f \in ListFolders |-> 0]

(***************************************************************************)
(* DatabaseManager.                                                        *)
(***************************************************************************)
Row(file_data, current_time, default_status) ==
    [name          |-> file_data.name,
     parent_id     |-> file_data.parent_id,
     modified_time |-> file_data.modifiedTime,
     path          |-> file_data.path,
     last_checked  |-> current_time,
     status        |-> IF file_data.status = "" THEN default_status
                       ELSE file_data.status]

UpsertStatusOnUpdate == "synced"
UpsertStatusOnInsert == "new"

upsert_file_UpdateOnly(db, file_data, current_time) ==
    IF file_data.id \in DOMAIN db
    THEN [db EXCEPT ![file_data.id] = Row(file_data, current_time, UpsertStatusOnUpdate)]
    ELSE db

upsert_file(db, file_data, current_time) ==
    IF file_data.id \in DOMAIN db
    THEN [db EXCEPT ![file_data.id] = Row(file_data, current_time, UpsertStatusOnUpdate)]
    ELSE db @@ (file_data.id :> Row(file_data, current_time, UpsertStatusOnInsert))

update_file_status_Removes(db, file_id, status) ==
    [i \in DOMAIN db \ {file_id} |-> db[i]]

update_file_status(db, file_id, status) ==
    IF file_id \in DOMAIN db
    THEN [db EXCEPT ![file_id].status = status]
    ELSE db

\* an INSERT that would replace the table's rows
add_sync_history_Replaces(hist, file_id, action, details) ==
    <<[file_id |-> file_id, action |-> action, details |-> details]>>

\* add_sync_history (lines 201-235): one INSERT INTO sync_history
add_sync_history(hist, file_id, action, details) ==
    Append(hist, [file_id |-> file_id, action |-> action, details |-> details])

get_file(db, file_id) == IF file_id \in DOMAIN db THEN <<db[file_id]>> ELSE <<>>

\* a SELECT that would leave out the rows marked deleted
get_all_files_NotDeleted(db) ==
    [id \in {i \in DOMAIN db : db[i].status # "deleted"} |-> db[id]]

\* get_all_files (lines 264-281): SELECT * FROM files, the rows of every status
get_all_files(db) == db

(***************************************************************************)
(* ChangeDetector.                                                         *)
(***************************************************************************)
\* get_file_metadata: only folders are ever asked for; the sub folder's
\* parent is the tracked root
get_file_metadata(item_id) ==
    IF item_id = SubFolder
    THEN << [id |-> SubFolder, name |-> NameOf(SubFolder), parents |-> <<RootFolder>>] >>
    ELSE <<>>

RECURSIVE build_file_path(_, _, _)
build_file_path(db, parent_id, file_name) ==
    IF parent_id = NoParent \/ parent_id = RootFolder
    THEN <<file_name>>
    ELSE LET parent_file == get_file(db, parent_id)
         IN IF parent_file # <<>> /\ parent_file[1].path # <<>>
            THEN parent_file[1].path \o <<file_name>>
            ELSE LET parent_metadata == get_file_metadata(parent_id)
                 IN IF parent_metadata # <<>>
                    THEN build_file_path(db,
                                         IF parent_metadata[1].parents # <<>>
                                         THEN parent_metadata[1].parents[1]
                                         ELSE NoParent,
                                         parent_metadata[1].name) \o <<file_name>>
                    ELSE <<file_name>>

(***************************************************************************)
(* build_file_path over any parent chain: the folders of a chain have      *)
(* metadata or none, a parent or none, and a record in the index or none.  *)
(***************************************************************************)
ChainFolders == (SubFolder + 1)..(SubFolder + NumChainFolders)
\* an id get_file_metadata knows nothing of
DanglingFolder == SubFolder + NumChainFolders + 1
\* the parent_id values of a call, and the parents a folder's metadata names
ParentIds == ChainFolders \cup {RootFolder, NoParent, DanglingFolder}

\* get_file_metadata(folder) (lines 239-261 of service_drive_client.py): None,
\* or the dict, whose key 'parents' is absent when parent is NoParent
NoMetadata == <<>>
Metadata(folder, parent) ==
    << [id |-> folder, name |-> NameOf(folder),
        parents |-> IF parent = NoParent THEN <<>> ELSE <<parent>>] >>

MetadataChoices(folder) ==
    {NoMetadata} \cup {Metadata(folder, parent) : parent \in ParentIds}

\* the folder's record in the index: none, one with an empty path, one with
\* a path
IndexChoices(folder) == {<<>>, <<[path |-> <<>>]>>, <<[path |-> <<NameOf(folder)>>]>>}

\* what build_file_path returns or raises
PathReturned(path) == [raised |-> FALSE, path |-> path]
RecursionError == [raised |-> TRUE, path |-> <<>>]
NoPathYet == [raised |-> FALSE, path |-> <<>>]

\* frames of build_file_path beyond which no chain without a revisit goes;
\* Python raises RecursionError at sys.getrecursionlimit() frames
RecursionLimit == NumChainFolders + 2

\* build_file_path (lines 29-62) with get_file_metadata answering from meta
\* and get_file from index; `frames` counts the calls on the stack
RECURSIVE BuildFilePath(_, _, _, _, _)
BuildFilePath(meta, index, parent_id, file_name, frames) ==
    IF frames > RecursionLimit THEN RecursionError
    ELSE IF parent_id = NoParent \/ parent_id = RootFolder
    THEN PathReturned(<<file_name>>)
    ELSE LET parent_file == IF parent_id \in DOMAIN index THEN index[parent_id]
                            ELSE <<>>
         IN IF parent_file # <<>> /\ parent_file[1].path # <<>>
            THEN PathReturned(parent_file[1].path \o <<file_name>>)
            ELSE LET parent_metadata == IF parent_id \in DOMAIN meta
                                        THEN meta[parent_id] ELSE NoMetadata
                 IN IF parent_metadata # NoMetadata
                    THEN LET parent_path ==
                                 BuildFilePath(meta, index,
                                     IF parent_metadata[1].parents # <<>>
                                     THEN parent_metadata[1].parents[1]
                                     ELSE NoParent,
                                     parent_metadata[1].name, frames + 1)
                         IN IF parent_path.raised THEN parent_path
                            ELSE PathReturned(parent_path.path \o <<file_name>>)
                    ELSE PathReturned(<<file_name>>)

PathAtRest ==
    /\ bp_meta = [f \in ChainFolders |-> NoMetadata]
    /\ bp_index = [f \in ChainFolders |-> <<>>]
    /\ bp_parent = NoParent
    /\ bp_ret = NoPathYet

\* a list of the ids as they come, one key per element
RECURSIVE ListKeys(_, _)
ListKeys(drive_files, i) ==
    IF i > Len(drive_files) THEN <<>>
    ELSE <<drive_files[i].id>> \o ListKeys(drive_files, i + 1)

\* drive_files_dict = {file['id']: file for file in drive_files}: the keys in
\* order of first occurrence, each with the dict of its last occurrence
RECURSIVE DictKeys(_, _)
DictKeys(drive_files, i) ==
    IF i > Len(drive_files) THEN <<>>
    ELSE IF \E j \in 1..(i - 1) : drive_files[j].id = drive_files[i].id
         THEN DictKeys(drive_files, i + 1)
         ELSE <<drive_files[i].id>> \o DictKeys(drive_files, i + 1)

DictValue(drive_files, id) ==
    LET last == CHOOSE i \in 1..Len(drive_files) :
                    /\ drive_files[i].id = id
                    /\ \A j \in (i + 1)..Len(drive_files) : drive_files[j].id # id
    IN drive_files[last]

\* a comparison that would count a time it cannot read as newer
IsModifiedUnlessOlder(drive_time, db_time) ==
    LET drive_modified == _parse_timestamp(drive_time)
        db_modified == _parse_timestamp(db_time)
    IN \/ ~drive_modified.valid
       \/ ~db_modified.valid
       \/ DatetimeGreater(drive_modified, db_modified)

\* the remote timestamp counts as newer than the persisted one
IsModified(drive_time, db_time) ==
    LET drive_modified == _parse_timestamp(drive_time)
        db_modified == _parse_timestamp(db_time)
    IN /\ drive_modified.valid
       /\ db_modified.valid
       /\ DatetimeGreater(drive_modified, db_modified)

\* the status each branch of the classification writes
StatusNew == "new"
StatusModified == "modified"
StatusUnchangedStale == "new"
StatusUnchanged == "synced"
StatusDeleted == "deleted"

\* one iteration of the loop over drive_files_dict (lines 91-129)
ClassifyFile(st, db_files_dict, listed, current_time) ==
    LET parent_id == NoParent    \* list_files requests no 'parents' field
        enriched(status) ==
            [id |-> listed.id, name |-> listed.name,
             modifiedTime |-> listed.modifiedTime, parent_id |-> parent_id,
             path |-> build_file_path(st.db, parent_id, listed.name),
             status |-> status]
    IN IF listed.id \notin DOMAIN db_files_dict
       THEN [st EXCEPT
               !.new = Append(@, enriched(StatusNew)),
               !.db = upsert_file(@, enriched(StatusNew), current_time),
               !.hist = add_sync_history(@, listed.id, "new", MissingTime)]
       ELSE IF IsModified(listed.modifiedTime, db_files_dict[listed.id].modified_time)
       THEN [st EXCEPT
               !.mod = Append(@, enriched(StatusModified)),
               !.db = upsert_file(@, enriched(StatusModified), current_time),
               !.hist = add_sync_history(@, listed.id, "modified", listed.modifiedTime)]
       ELSE [st EXCEPT
               !.db = upsert_file(@, enriched(StatusUnchanged), current_time)]

RECURSIVE ClassifyLoop(_, _, _, _, _, _)
ClassifyLoop(st, db_files_dict, drive_files, keys, i, current_time) ==
    IF i > Len(keys) THEN st
    ELSE ClassifyLoop(
             ClassifyFile(st, db_files_dict, DictValue(drive_files, keys[i]), current_time),
             db_files_dict, drive_files, keys, i + 1, current_time)

\* one iteration of the loop over db_files_dict (lines 133-139)
MarkDeleted(st, db_files_dict, file_id) ==
    [st EXCEPT
       !.del = Append(@, [db_files_dict[file_id] EXCEPT !.status = StatusDeleted]
                          @@ [id |-> file_id]),
       !.db = update_file_status(@, file_id, StatusDeleted),
       !.hist = add_sync_history(@, file_id, "deleted", MissingTime)]

\* a test that would pass over a record already marked deleted
VanishedSinceLastPass(db_files_dict, listed_ids, file_id) ==
    /\ file_id \notin listed_ids
    /\ db_files_dict[file_id].status # StatusDeleted

\* the test of line 134: the record's id is not in the enumeration, whatever
\* the record's status (get_all_files selects the rows of every status)
Vanished(db_files_dict, listed_ids, file_id) ==
    file_id \notin listed_ids

RECURSIVE DeletedLoop(_, _, _, _)
DeletedLoop(st, db_files_dict, listed_ids, file_id) ==
    IF file_id > NumFiles THEN st
    ELSE DeletedLoop(
             IF /\ file_id \in DOMAIN db_files_dict
                /\ Vanished(db_files_dict, listed_ids, file_id)
             THEN MarkDeleted(st, db_files_dict, file_id)
             ELSE st,
             db_files_dict, listed_ids, file_id + 1)

\* detect_changes on the enumeration drive_files; the result carries the
\* three lists and the index and history as the pass leaves them
detect_changes(drive_files, db, hist, current_time) ==
    LET db_files_dict == get_all_files(db)
        keys == DictKeys(drive_files, 1)
        start == [db |-> db, hist |-> hist, new |-> <<>>, mod |-> <<>>, del |-> <<>>]
        classified == ClassifyLoop(start, db_files_dict, drive_files, keys, 1, current_time)
    IN DeletedLoop(classified, db_files_dict,
                   {keys[i] : i \in 1..Len(keys)}, 1)

(***************************************************************************)
(* detect_changes with storage errors.  get_all_files answers [] when its  *)
(* SELECT raises (db_manager.py lines 279-281).  upsert_file returns False *)
(* when a statement raises, with nothing written, and when its commit      *)
(* raises (lines 196-199): no rollback follows, so the row stays in the    *)
(* open transaction of the thread's connection, which the connection's     *)
(* reads see and its next commit makes durable.  The index here is the     *)
(* table as the pass's connection sees it.                                 *)
(***************************************************************************)
UpsertOk == "ok"
UpsertNotWritten == "not_written"
UpsertCommitFailed == "commit_failed"
UpsertOutcomes == {UpsertOk, UpsertNotWritten, UpsertCommitFailed}

\* the pass's storage failures, and those of the pass before that the
\* properties need
NoFaults == [read_failed |-> FALSE, failed |-> {}, prev_new |-> {}, prev_mod |-> {}]

\* one iteration of the loop of lines 91-129 whose upsert_file ends in outcome
ClassifyFileFaulty(st, db_files_dict, listed, current_time, outcome) ==
    LET r == ClassifyFile(st, db_files_dict, listed, current_time)
    IN IF outcome = UpsertNotWritten THEN [r EXCEPT !.db = st.db] ELSE r

RECURSIVE ClassifyLoopFaulty(_, _, _, _, _, _, _)
ClassifyLoopFaulty(st, db_files_dict, drive_files, keys, i, current_time, outcomes) ==
    IF i > Len(keys) THEN st
    ELSE ClassifyLoopFaulty(
             ClassifyFileFaulty(st, db_files_dict, DictValue(drive_files, keys[i]),
                                current_time, outcomes[keys[i]]),
             db_files_dict, drive_files, keys, i + 1, current_time, outcomes)

\* get_all_files() as the pass gets it
get_all_files_faulty(db, read_failed) ==
    IF read_failed THEN EmptyMap ELSE get_all_files(db)

detect_changes_faulty(drive_files, db, hist, current_time, read_failed, outcomes) ==
    LET db_files_dict == get_all_files_faulty(db, read_failed)
        keys == DictKeys(drive_files, 1)
        start == [db |-> db, hist |-> hist, new |-> <<>>, mod |-> <<>>, del |-> <<>>]
        classified == ClassifyLoopFaulty(start, db_files_dict, drive_files, keys, 1,
                                         current_time, outcomes)
    IN DeletedLoop(classified, db_files_dict,
                   {keys[i] : i \in 1..Len(keys)}, 1)

(***************************************************************************)
(* Two polls side by side: main's initial poll_for_changes() and the poll  *)
(* task of the scheduler thread's first tick (main.py lines 530-541).      *)
(* Neither poll_now nor detect_changes takes a lock; each call of the      *)
(* DatabaseManager is atomic under its own lock.                           *)
(***************************************************************************)
PollThreads == {"main", "scheduler"}
NoLists == [new |-> <<>>, mod |-> <<>>, del |-> <<>>]
NothingBefore == [files |-> EmptyMap, hist_len |-> 0]

TwoPollsAtRest ==
    /\ cp_pc = [t \in PollThreads |-> "idle"]
    /\ cp_dict = [t \in PollThreads |-> EmptyMap]
    /\ cp_keys = [t \in PollThreads |-> <<>>]
    /\ cp_lists = [t \in PollThreads |-> NoLists]
    /\ cp_triggered = [t \in PollThreads |-> <<>>]
    /\ cp_before = NothingBefore

\* the pass of thread t as far as it got, in the shape the loops work on
PassState(t) ==
    [db |-> files, hist |-> sync_history, new |-> cp_lists[t].new,
     mod |-> cp_lists[t].mod, del |-> cp_lists[t].del]

ListsOf(st) == [new |-> st.new, mod |-> st.mod, del |-> st.del]

(***************************************************************************)
(* ErrorHandler.                                                           *)
(***************************************************************************)
OpNames == {"poll_for_changes", "cleanup_downloads"}
\* what an attempt can return, and the exceptions it can raise
Results == {"r1", "r2"}
Exceptions == {"e1", "e2"}
None == "None"

\* self.error_counts.get(op_name, 0)
ErrorCount(counts, name) == IF name \in DOMAIN counts THEN counts[name] ELSE 0

\* the loop condition of execute_with_retry (line 51)
LoopCondition(r, max) == r <= max

MoreRetriesOneLess(r, max) == r + 1 < max

\* another attempt follows a failed one (line 69)
MoreRetries(r, max) == r < max

CountsAfterSuccessKept(counts, name) == counts

\* lines 59-60: the count of a tracked operation is reset on success
CountsAfterSuccess(counts, name) ==
    IF name \in DOMAIN counts THEN [counts EXCEPT ![name] = 0] ELSE counts

\* line 66: every failed attempt increments the count
CountsAfterFailure(counts, name) ==
    IF name \in DOMAIN counts
    THEN [counts EXCEPT ![name] = @ + 1]
    ELSE counts @@ (name :> 1)

\* line 67
LastErrorsAfterFailure(errors, name, e) ==
    IF name \in DOMAIN errors
    THEN [errors EXCEPT ![name] = e]
    ELSE errors @@ (name :> e)

\* get_error_stats()
get_error_stats(counts, errors) ==
    [name \in DOMAIN counts |->
        [count |-> counts[name],
         last_error |-> IF name \in DOMAIN errors THEN errors[name] ELSE None]]

\* reset_error_stats(operation_name)
ResetOne(counts, name) ==
    IF name \in DOMAIN counts THEN [counts EXCEPT ![name] = 0] ELSE counts
\* a reset that would leave the last exception of the operation in place
ResetOneErrorKept(counts, errors, name) == errors

ResetOneError(counts, errors, name) ==
    IF name \in DOMAIN counts
    THEN [n \in DOMAIN errors \ {name} |-> errors[n]]
    ELSE errors

\* `if operation_name:` (line 108): None and the empty string name nothing
Truthy(operation_name) == operation_name \notin {None, ""}

\* error_counts and last_errors after reset_error_stats(operation_name)
reset_error_stats(counts, errors, operation_name) ==
    IF Truthy(operation_name)
    THEN [counts |-> ResetOne(counts, operation_name),
          errors |-> ResetOneError(counts, errors, operation_name)]
    ELSE [counts |-> EmptyMap, errors |-> EmptyMap]

ReturnValue(success, result, exception) ==
    [success |-> success, result |-> result, exception |-> exception]

(***************************************************************************)
(* Scheduler.  Thread ids: the loop threads are positive (a start() after  *)
(* a stop() whose join timed out creates a second one), the thread calling *)
(* run_task_now() is negative.                                             *)
(***************************************************************************)
TaskIds == {"poll", "cleanup"}
Intervals == 1..MaxInterval
LoopThreads == {1, 2}
Callers == {-1}
\* no thread: a free lock, self.thread = None
NoThread == 0
\* last_run = None
NeverRun == -1

\* add_task: the task_info stored (lines 41-48)
NewTaskInfoDelayed(interval_seconds, now) ==
    [interval |-> interval_seconds, last_run |-> NeverRun,
     next_run |-> now + interval_seconds]

NewTaskInfo(interval_seconds, now) ==
    [interval |-> interval_seconds, last_run |-> NeverRun, next_run |-> now]

\* the position of a key in the dict: a new key goes last, an existing key
\* keeps its place
OrderAfterAdd(order, task_id) ==
    IF \E i \in 1..Len(order) : order[i] = task_id
    THEN order
    ELSE Append(order, task_id)

OrderAfterRemove(order, task_id) ==
    SelectSeq(order, LAMBDA x : x # task_id)

\* the loop's test of a task (line 112)
IsDue(now, task_info) == now >= task_info.next_run

\* the loop's rescheduling (line 117); `completed` is the time the task ended
NextRunFromCompletion(now, completed, interval_seconds) ==
    completed + interval_seconds

NextRunAfterDispatch(now, completed, interval_seconds) ==
    now + interval_seconds

\* run_task_now's rescheduling (line 201)
NextRunAfterRunNowNoInterval(completed, interval_seconds) == completed

NextRunAfterRunNow(completed, interval_seconds) ==
    completed + interval_seconds

\* what run_task_now returns (lines 202-203); NotReturned while it runs
NotReturned == "none"
ReturnedTrue == "True"
ReturnedFalse == "False"

\* a _run_task that would set last_run whether func returned or raised
AfterRunTaskAlways(task_info, succeeded, completed) ==
    [task_info EXCEPT !.last_run = completed]

\* _run_task (lines 94-101): last_run is set only when func returned
AfterRunTask(task_info, succeeded, completed) ==
    IF succeeded THEN [task_info EXCEPT !.last_run = completed] ELSE task_info

\* where the loop thread stands when _run_task is over: the except clause of
\* _run_task (lines 100-101) keeps the exception from the loop
LoopAfterRunTaskUncaught(succeeded) == IF succeeded THEN "scan" ELSE "ended"

LoopAfterRunTask(succeeded) == "scan"

\* a loop that would not look at its flag
WhileTrue(flag) == TRUE

\* `while self.running:` of _scheduler_loop (line 107) and of _polling_loop
\* (polling_system.py line 123)
WhileRunning(flag) == flag

\* `with self.lock:` can be entered
LockNotTaken(holder) == TRUE

LockFree(holder) == holder = NoThread

\* get_task_status (lines 163-171)
get_task_status(ts, task_id) ==
    IF task_id \in DOMAIN ts
    THEN << [interval |-> ts[task_id].interval,
             last_run |-> ts[task_id].last_run,
             next_run |-> ts[task_id].next_run] >>
    ELSE <<>>

\* get_all_task_statuses of a caller: whether the caller is inside it, the
\* position of its iteration over self.tasks, and `statuses`
NoStatusesCall == [active |-> FALSE, idx |-> 0, statuses |-> EmptyMap]
ReturnedStatuses == "statuses"
ReturnedStatus == "status"

\* history of a task id: the time of the add_task that created the entry,
\* whether the entry is as add_task left it (not yet visited by the loop
\* nor run by run_task_now), whether its interval has
\* been changed since, the last two loop dispatches <<tick time, interval>>,
\* and the tick time of its last execution by the loop if that one raised
NoLog == [added_at |-> NeverRun, fresh |-> FALSE, updated |-> FALSE, fired |-> <<>>,
          raised |-> NeverRun]

LastTwo(fired, entry) ==
    IF Len(fired) = 0 THEN <<entry>> ELSE <<fired[Len(fired)], entry>>

\* Scheduler.__init__ (lines 22-26), no thread created yet
InitSched ==
    /\ tasks = [x \in {} |-> 0]
    /\ task_order = <<>>
    /\ running = FALSE
    /\ thread = NoThread
    /\ lock = NoThread
    /\ clock = 0
    /\ lp_pc = [l \in LoopThreads |-> "unborn"]
    /\ lp_now = [l \in LoopThreads |-> 0]
    /\ lp_idx = [l \in LoopThreads |-> 0]
    /\ lp_wake = [l \in LoopThreads |-> 0]
    /\ c_pc = [c \in Callers |-> "idle"]
    /\ c_task = [c \in Callers |-> "poll"]
    /\ c_ret = [c \in Callers |-> NotReturned]
    /\ c_all = [c \in Callers |-> NoStatusesCall]
    /\ api_calls = 0
    /\ tick_done = [l \in LoopThreads |-> <<>>]
    /\ task_log = [id \in TaskIds |-> NoLog]

(***************************************************************************)
(* PollingSystem.  Its change_detector is a collaborator: a detection pass *)
(* returns three lists of files, each file in at most one of them, or      *)
(* raises.  A file is written by its id, the message of an exception as    *)
(* the sequence of its words.                                              *)
(***************************************************************************)
\* the threads that start() creates for _polling_loop: a start() after a
\* stop() whose join gave up creates a second one
PollingThreads == {1, 2}
\* self.interval, in seconds
PollInterval == MaxInterval

PollThreadsAtRest ==
    /\ pt_pc = [l \in PollingThreads |-> "unborn"]
    /\ pt_left = [l \in PollingThreads |-> 0]
    /\ pt_thread = NoThread
    /\ pt_join = FALSE
    /\ pt_ret = NotReturned

EVENT_NEW_FILE == "new_file"
EVENT_MODIFIED_FILE == "modified_file"
EVENT_DELETED_FILE == "deleted_file"
EVENT_POLL_COMPLETE == "poll_complete"

\* the order in which poll_now and _polling_loop trigger the event types
\* (lines 176-179 and 133-136)
TriggerOrderModifiedFirst ==
    <<EVENT_MODIFIED_FILE, EVENT_NEW_FILE, EVENT_DELETED_FILE, EVENT_POLL_COMPLETE>>

TriggerOrder ==
    <<EVENT_NEW_FILE, EVENT_MODIFIED_FILE, EVENT_DELETED_FILE, EVENT_POLL_COMPLETE>>
EventTypes == {TriggerOrder[i] : i \in 1..Len(TriggerOrder)}
UnknownEvent == "unknown"

\* the callables that are registered
Handlers == {"h1", "h2"}

\* phase of the dispatch after the last event type
Done == Len(TriggerOrder) + 1
\* the phase of poll_complete
CompletePhase == Len(TriggerOrder)

EmptyLists == <<<<>>, <<>>, <<>>>>

RECURSIVE IdsWith(_, _, _)
\* the ids that `a` assigns to list k, ascending from id
IdsWith(a, k, id) ==
    IF id > NumFiles THEN <<>>
    ELSE (IF a[id] = k THEN <<id>> ELSE <<>>) \o IdsWith(a, k, id + 1)

\* what detect_changes() can return
DetectResults ==
    {<<IdsWith(a, 1, 1), IdsWith(a, 2, 1), IdsWith(a, 3, 1)>> : a \in [FileIds -> 0..3]}

Words == {"SSL", "ssl", "socket", "Connection", "quota"}
Messages == UNION {[1..n -> Words] : n \in 1..MaxMsgLen}
NoException == <<>>

\* str.lower() of a word
LowerWord(w) ==
    CASE w = "SSL" -> "ssl"
      [] w = "Connection" -> "connection"
      [] OTHER -> w

\* `sub in message`
Contains(message, sub) == \E i \in 1..Len(message) : message[i] = sub

\* message.lower()
Lower(message) == [i \in 1..Len(message) |-> LowerWord(message[i])]

\* the test of line 166
IsTransient(message) ==
    \/ Contains(message, "SSL")
    \/ Contains(message, "socket")
    \/ Contains(Lower(message), "connection")

\* how a call ends: it returns three lists or raises
Returns(lists) == [kind |-> "return", lists |-> lists, exc |-> NoException]
Raises(message) == [kind |-> "raise", lists |-> EmptyLists, exc |-> message]
NotReturnedYet == [kind |-> "none", lists |-> EmptyLists, exc |-> NoException]

\* poll_now, the except clause around detect_changes (lines 164-173)
InnerExcept(message) ==
    IF IsTransient(message) THEN Returns(EmptyLists) ELSE Raises(message)

\* poll_now, the except clause around its whole body (lines 182-185)
OuterExcept(outcome) ==
    IF outcome.kind = "raise" THEN Returns(EmptyLists) ELSE outcome

\* poll_now when detect_changes raises
PollNowOnErrorPropagates(message) == Raises(message)

PollNowOnError(message) == OuterExcept(InnerExcept(message))

Position(phase, file, handler) == [phase |-> phase, file |-> file, handler |-> handler]

RECURSIVE Normalize(_, _, _)
\* the next handler invocation of the nested loops of _trigger_callbacks
\* and _trigger_poll_complete_callbacks (lines 97-102, 115-119), from a
\* position that may be past the end of a list
Normalize(cbs, lists, pos) ==
    IF pos.phase >= Done THEN Position(Done, 1, 1)
    ELSE IF pos.phase = CompletePhase
         THEN IF pos.handler > Len(cbs[EVENT_POLL_COMPLETE])
              THEN Position(Done, 1, 1)
              ELSE pos
         ELSE IF pos.file > Len(lists[pos.phase])
              THEN Normalize(cbs, lists, Position(pos.phase + 1, 1, 1))
              ELSE IF pos.handler > Len(cbs[TriggerOrder[pos.phase]])
                   THEN Normalize(cbs, lists, Position(pos.phase, pos.file + 1, 1))
                   ELSE pos

\* the position after the invocation at pos, whether it returned or raised
\* (the except clauses of lines 101-102 and 118-119)
AfterInvocationAbort(cbs, lists, pos, raised) ==
    IF raised
    THEN Position(Done, 1, 1)
    ELSE Normalize(cbs, lists, Position(pos.phase, pos.file, pos.handler + 1))

AfterInvocation(cbs, lists, pos, raised) ==
    Normalize(cbs, lists, Position(pos.phase, pos.file, pos.handler + 1))

\* one handler invocation: the event type, the file (0 for poll_complete,
\* which gets the three lists) and the place of the handler in the list
Invocation(lists, pos) ==
    [event |-> TriggerOrder[pos.phase],
     file |-> IF pos.phase = CompletePhase THEN 0 ELSE lists[pos.phase][pos.file],
     at |-> pos.handler]

RECURSIVE Registered(_, _)
\* the number of registered handlers, over the event types from phase i on
Registered(cbs, i) ==
    IF i > Len(TriggerOrder) THEN 0
    ELSE Len(cbs[TriggerOrder[i]]) + Registered(cbs, i + 1)

\* register_callback (lines 187-207)
register_callback(cbs, event_type, callback) ==
    IF event_type \notin DOMAIN cbs
    THEN cbs
    ELSE [cbs EXCEPT ![event_type] = Append(@, callback)]

RECURSIVE RemoveFirst(_, _)
\* list.remove(x)
RemoveFirst(list, x) ==
    IF list = <<>> THEN <<>>
    ELSE IF Head(list) = x THEN Tail(list)
         ELSE <<Head(list)>> \o RemoveFirst(Tail(list), x)

\* unregister_callback (lines 209-232)
unregister_callback(cbs, event_type, callback) ==
    IF event_type \notin DOMAIN cbs
    THEN cbs
    ELSE [cbs EXCEPT ![event_type] = RemoveFirst(@, callback)]

\* PollingSystem.__init__ (lines 39-50)
InitPoll ==
    /\ callbacks = [e \in EventTypes |-> <<>>]
    /\ p_running = FALSE
    /\ pl_pc = "unborn"
    /\ poll_by = "nobody"
    /\ poll_pc = "idle"
    /\ poll_lists = EmptyLists
    /\ poll_pos = Position(Done, 1, 1)
    /\ poll_ret = NotReturnedYet
    /\ polls = 0
    /\ poll_trace = <<>>
    /\ raised_at = 0
    /\ detect_exc = NoException

(***************************************************************************)
(* DatabaseManager called from several threads, over a database whose      *)
(* statements can fail.  The database file holds the committed rows; the   *)
(* one write transaction SQLite lets be open holds the rows as its         *)
(* connection sees them.                                                   *)
(***************************************************************************)
\* the threads that call the one DatabaseManager
DbThreads == {1, 2}

WriteOps == {"upsert_file", "add_sync_history", "update_file_status", "delete_file"}
ReadOps == {"get_file", "get_all_files", "get_files_by_status"}

\* argument of the calls that take no file id
NoFileId == 0

\* the calls made: op, file id or file_data['id'], status or
\* file_data.get('status') ("" when the key is absent), and whether
\* file_data has the key 'name'
DbCalls ==
    [op : {"upsert_file"}, file_id : FileIds, status : {"", "modified"},
     has_name : BOOLEAN]
    \cup [op : {"add_sync_history", "delete_file", "get_file"}, file_id : FileIds,
          status : {""}, has_name : {TRUE}]
    \cup [op : {"update_file_status"}, file_id : FileIds, status : {"deleted"},
          has_name : {TRUE}]
    \cup [op : {"get_all_files"}, file_id : {NoFileId}, status : {""},
          has_name : {TRUE}]
    \cup [op : {"get_files_by_status"}, file_id : {NoFileId}, status : {"new"},
          has_name : {TRUE}]

NoCall == [op |-> "", file_id |-> NoFileId, status |-> "", has_name |-> TRUE]

\* the exceptions of the model: subclasses of sqlite3.Error, and the
\* KeyError of file_data['name']
SqliteErrors == {"OperationalError", "IntegrityError"}
NoError == ""

\* tables `files` and `sync_history` (schema, lines 66-91)
EmptyStore == [files |-> <<>>, sync_history |-> <<>>]
NoTransaction == [owner |-> NoThread, store |-> EmptyStore]

\* file_data of a call, as the dict upsert_file reads
FileData(call) ==
    [id |-> call.file_id, name |-> NameOf(call.file_id), parent_id |-> NoParent,
     modifiedTime |-> "", path |-> <<>>, status |-> call.status]

\* a row of `files`: the id column and the others
FilesRow(call, default_status) ==
    [id |-> call.file_id, columns |-> Row(FileData(call), 0, default_status)]

IdsOf(rows) == {rows[i].id : i \in 1..Len(rows)}

\* rows as a connection of thread t reads them: its own open transaction,
\* or the committed rows
View(store, dirty, t) == IF dirty.owner = t THEN dirty.store ELSE store

\* SELECT id FROM files WHERE id = ? / fetchone() (lines 141-145)
SelectExists(rows, file_id) == file_id \in IdsOf(rows)

\* id TEXT PRIMARY KEY (line 69): an INSERT of an id the table has raises
\* sqlite3.IntegrityError
PrimaryKeyViolated(rows, file_id) == file_id \in IdsOf(rows)

MapRows(rows, Change(_)) == [i \in 1..Len(rows) |-> Change(rows[i])]

\* the statement each write operation executes, on the rows its connection
\* sees (lines 151-194, 220-229, 323-326, 349-352)
SqlInsert(st, call) ==
    [st EXCEPT !.files = Append(@, FilesRow(call, UpsertStatusOnInsert))]

SqlUpdate(st, call) ==
    LET Change(row) == IF row.id = call.file_id
                       THEN FilesRow(call, UpsertStatusOnUpdate) ELSE row
    IN [st EXCEPT !.files = MapRows(@, Change)]

SqlUpdateStatus(st, call) ==
    LET Change(row) == IF row.id = call.file_id
                       THEN [row EXCEPT !.columns.status = call.status] ELSE row
    IN [st EXCEPT !.files = MapRows(@, Change)]

SqlDelete(st, call) ==
    LET Kept(row) == row.id # call.file_id
    IN [st EXCEPT !.files = SelectSeq(@, Kept)]

SqlInsertHistory(st, call) ==
    [st EXCEPT !.sync_history = Append(@, call.file_id)]

Statement(st, call, exists) ==
    CASE call.op = "upsert_file" ->
             IF exists THEN SqlUpdate(st, call) ELSE SqlInsert(st, call)
      [] call.op = "add_sync_history" -> SqlInsertHistory(st, call)
      [] call.op = "update_file_status" -> SqlUpdateStatus(st, call)
      [] OTHER -> SqlDelete(st, call)

IsInsert(call, exists) == call.op = "upsert_file" /\ ~exists

\* what a read operation returns (lines 246-255, 271-276, 292-300)
Typed(type, value) == [type |-> type, value |-> value]

ReadResult(st, call) ==
    LET Is(row) == row.id = call.file_id
        Has(row) == row.columns.status = call.status
    IN CASE call.op = "get_file" ->
                IF SelectExists(st.files, call.file_id)
                THEN Typed("dict", SelectSeq(st.files, Is)[1])
                ELSE Typed("NoneType", None)
         [] call.op = "get_all_files" -> Typed("list", st.files)
         [] OTHER -> Typed("list", SelectSeq(st.files, Has))

\* what a call returned or raised
NoResult == Typed("", None)
DbNotReturned == [kind |-> "none", result |-> NoResult, exc |-> NoError]
DbReturns(result) == [kind |-> "return", result |-> result, exc |-> NoError]
DbRaises(exc) == [kind |-> "raise", result |-> NoResult, exc |-> exc]

\* the value of the `except sqlite3.Error` clause of each operation
\* (lines 196-198, 233-235, 256-258, 277-279, 301-303, 328-330, 354-356)
FailureValue(op) ==
    CASE op \in WriteOps -> Typed("bool", FALSE)
      [] op = "get_file" -> Typed("NoneType", None)
      [] OTHER -> Typed("list", <<>>)

\* an operation whose except clause is absent
DbExceptAbsent(op, exc) == DbRaises(exc)

\* `except sqlite3.Error as e:` of every operation
DbExcept(op, exc) ==
    IF exc \in SqliteErrors THEN DbReturns(FailureValue(op)) ELSE DbRaises(exc)

\* `with self._lock:` can be entered, were the statement absent
RLockAbsent(holder, t) == TRUE

\* `with self._lock:` can be entered by thread t (an RLock, line 31)
RLockFree(holder, t) == holder \in {NoThread, t}

InitDb ==
    /\ db_store = EmptyStore
    /\ db_dirty = NoTransaction
    /\ db_lock = NoThread
    /\ db_conn = [t \in DbThreads |-> FALSE]
    /\ db_pc = [t \in DbThreads |-> "idle"]
    /\ db_call = [t \in DbThreads |-> NoCall]
    /\ db_exists = [t \in DbThreads |-> FALSE]
    /\ db_ret = [t \in DbThreads |-> DbNotReturned]
    /\ db_calls = 0
    /\ db_error = [t \in DbThreads |-> NoError]

(***************************************************************************)
(* Specification of change detection: the remote tree changes, and         *)
(* detect_changes() runs whole passes against the index.                   *)
(***************************************************************************)
ListedIds(list) == {list[i].id : i \in 1..Len(list)}

InitDetect ==
    /\ drive = EmptyMap
    /\ files = EmptyMap
    /\ sync_history = <<>>
    /\ new_files = <<>>
    /\ modified_files = <<>>
    /\ deleted_files = <<>>
    /\ passes = 0
    /\ remote_ops = 0
    /\ seen = EmptyMap
    /\ pre_files = EmptyMap
    /\ stable = 0
    /\ new_count = [id \in FileIds |-> 0]
    /\ repeated = {}
    /\ fault_log = NoFaults

\* the error handler as constructed with (max, delay)
InitHandler(max, delay) ==
    /\ max_retries = max
    /\ retry_delay_seconds = delay
    /\ error_counts = EmptyMap
    /\ last_errors = EmptyMap
    /\ ex_pc = "idle"
    /\ op_name = None
    /\ retries = 0
    /\ ex_ret = ReturnValue(FALSE, None, None)
    /\ calls = 0
    /\ ex_trace = <<>>
    /\ count_before = 0

DetectResultVars == <<files, sync_history, new_files, modified_files,
                      deleted_files, passes, seen, pre_files, stable, new_count,
                      repeated, fault_log>>

\* a file is uploaded to the remote tree
RemoteAdd ==
    /\ remote_ops < MaxRemoteOps
    /\ \E id \in FileIds \ DOMAIN drive, t \in TimeStrings :
           drive' = drive @@ (id :> t)
    /\ remote_ops' = remote_ops + 1
    /\ UNCHANGED DetectResultVars
    /\ UNCHANGED OtherThanDetect

\* a remote file gets another modifiedTime
RemoteTouch ==
    /\ remote_ops < MaxRemoteOps
    /\ \E id \in DOMAIN drive :
           \E t \in TimeStrings \ {drive[id]} :
               drive' = [drive EXCEPT ![id] = t]
    /\ remote_ops' = remote_ops + 1
    /\ UNCHANGED DetectResultVars
    /\ UNCHANGED OtherThanDetect

\* a remote file is removed (trashed)
RemoteRemove ==
    /\ remote_ops < MaxRemoteOps
    /\ \E id \in DOMAIN drive :
           drive' = [i \in DOMAIN drive \ {id} |-> drive[i]]
    /\ remote_ops' = remote_ops + 1
    /\ UNCHANGED DetectResultVars
    /\ UNCHANGED OtherThanDetect

\* a trashed file whose record the index has is restored: the remote tree has
\* its id again, with the modifiedTime the file has then
RemoteRestore ==
    /\ \E id \in DOMAIN files \ DOMAIN drive, t \in TimeStrings :
           drive' = drive @@ (id :> t)
    /\ UNCHANGED remote_ops
    /\ UNCHANGED DetectResultVars
    /\ UNCHANGED OtherThanDetect

\* the pass over drive_files had the result r; its index read failed or
\* not, and the upserts of `failed` returned False
PassWith(drive_files, r, read_failed, failed) ==
    /\ passes < MaxPasses
    /\ \E enumerated \in {[id \in ListedIds(drive_files) |-> drive[id]]} :
          /\ files' = r.db
          /\ sync_history' = r.hist
          /\ new_files' = r.new
          /\ modified_files' = r.mod
          /\ deleted_files' = r.del
          /\ seen' = enumerated
          /\ pre_files' = files
          /\ stable' = IF passes > 0 /\ enumerated = seen
                       THEN (IF stable < 2 THEN stable + 1 ELSE 2)
                       ELSE 1
          /\ new_count' = [id \in FileIds |->
                              IF id \in ListedIds(r.new)
                              THEN new_count[id] + 1 ELSE new_count[id]]
          /\ repeated' = {id \in ListedIds(drive_files) :
                              \E i, j \in 1..Len(drive_files) :
                                  /\ i # j
                                  /\ drive_files[i].id = id
                                  /\ drive_files[j].id = id}
    /\ fault_log' = [read_failed |-> read_failed, failed |-> failed,
                     prev_new |-> ListedIds(new_files) \cap fault_log.failed,
                     prev_mod |-> ListedIds(modified_files) \cap fault_log.failed]
    /\ passes' = passes + 1
    /\ UNCHANGED <<drive, remote_ops>>
    /\ UNCHANGED OtherThanDetect

\* one call of detect_changes() in which list_all_files returns drive_files
\* and the storage calls all succeed
PassOver(drive_files) ==
    \E r \in {detect_changes(drive_files, files, sync_history, passes + 1)} :
        PassWith(drive_files, r, FALSE, {})

\* one call of detect_changes(); `failed` are the folders whose listing
\* ends in an HttpError during this pass
Pass(failed) ==
    \E drive_files \in {list_all_files(drive, failed)} : PassOver(drive_files)

\* the enumeration with the files of `twice` listed a second time, as
\* list_all_files returns a file that is in two of the folders it expands
\* (service_drive_client.py lines 120-125: no check against all_files)
ListedTwice(drive_files, twice) ==
    LET Again(file) == file.id \in twice
    IN drive_files \o SelectSeq(drive_files, Again)

\* a pass whose enumeration holds some file more than once
DetectPassListedTwice ==
    \E twice \in SUBSET DOMAIN drive \ {{}} :
        \E drive_files \in {ListedTwice(list_all_files(drive, {}), twice)} :
            PassOver(drive_files)

\* a pass whose listing requests all succeed
DetectPass == Pass({})

\* a pass in which the listing of some folder ends in an HttpError
DetectPassHttpError == \E failed \in SUBSET Folders \ {{}} : Pass(failed)

NextDetect ==
    \/ RemoteAdd
    \/ RemoteTouch
    \/ RemoteRemove
    \/ DetectPass

NextDetectRestore ==
    \/ NextDetect
    \/ RemoteRestore

\* a pass during which storage calls can fail
DetectPassDbErrors ==
    \E read_failed \in BOOLEAN, outcomes \in [DOMAIN drive -> UpsertOutcomes] :
        \E drive_files \in {list_all_files(drive, {})} :
            \E r \in {detect_changes_faulty(drive_files, files, sync_history,
                                            passes + 1, read_failed, outcomes)} :
                PassWith(drive_files, r, read_failed,
                         {id \in DOMAIN drive : outcomes[id] # UpsertOk})

NextDetectDbErrors ==
    \/ NextDetect
    \/ DetectPassDbErrors

HandlerAtRest == InitHandler(MaxRetriesBound, MaxDelay)

(***************************************************************************)
(* Specification of the two polls side by side.  Earlier runs of the       *)
(* program leave an index; then the remote tree stays as it is while the   *)
(* main thread and the scheduler thread each make one poll, their steps    *)
(* interleaved in any order.                                               *)
(***************************************************************************)
NoPollBegun == \A t \in PollThreads : cp_pc[t] = "idle"

\* what happened before this run of the program
EarlierRun == NoPollBegun /\ NextDetect

TwoPollsFrame == <<drive, new_files, modified_files, deleted_files, passes,
                   remote_ops, seen, pre_files, stable, new_count, repeated,
                   fault_log>>

\* detect_changes lines 78-84: the enumeration and the index are read
PollBegins(t) ==
    /\ cp_pc[t] = "idle"
    /\ drive # EmptyMap
    /\ cp_pc' = [cp_pc EXCEPT ![t] = "classify"]
    /\ cp_dict' = [cp_dict EXCEPT ![t] = get_all_files(files)]
    /\ cp_keys' = [cp_keys EXCEPT ![t] = DictKeys(list_all_files(drive, {}), 1)]
    /\ cp_before' = IF NoPollBegun
                    THEN [files |-> files, hist_len |-> Len(sync_history)]
                    ELSE cp_before
    /\ UNCHANGED <<cp_lists, cp_triggered, files, sync_history>>
    /\ UNCHANGED TwoPollsFrame
    /\ UNCHANGED OtherThanTwoPolls

\* one iteration of the loop of lines 91-129
PollClassifies(t) ==
    /\ cp_pc[t] = "classify"
    /\ cp_keys[t] # <<>>
    /\ \E r \in {ClassifyFile(PassState(t), cp_dict[t],
                               DictValue(list_all_files(drive, {}), Head(cp_keys[t])),
                               passes + 1)} :
           /\ files' = r.db
           /\ sync_history' = r.hist
           /\ cp_lists' = [cp_lists EXCEPT ![t] = ListsOf(r)]
    /\ cp_keys' = [cp_keys EXCEPT ![t] = Tail(@)]
    /\ UNCHANGED <<cp_pc, cp_dict, cp_triggered, cp_before>>
    /\ UNCHANGED TwoPollsFrame
    /\ UNCHANGED OtherThanTwoPolls

\* lines 131-144: the loop over db_files_dict, and the return
PollMarksDeleted(t) ==
    /\ cp_pc[t] = "classify"
    /\ cp_keys[t] = <<>>
    /\ \E r \in {DeletedLoop(PassState(t), cp_dict[t], DOMAIN drive, 1)} :
           /\ files' = r.db
           /\ sync_history' = r.hist
           /\ cp_lists' = [cp_lists EXCEPT ![t] = ListsOf(r)]
    /\ cp_pc' = [cp_pc EXCEPT ![t] = "trigger"]
    /\ UNCHANGED <<cp_dict, cp_keys, cp_triggered, cp_before>>
    /\ UNCHANGED TwoPollsFrame
    /\ UNCHANGED OtherThanTwoPolls

\* poll_now line 176: the new_file callbacks are called with each new file
PollTriggers(t) ==
    /\ cp_pc[t] = "trigger"
    /\ cp_triggered' = [cp_triggered EXCEPT ![t] = ListKeys(cp_lists[t].new, 1)]
    /\ cp_pc' = [cp_pc EXCEPT ![t] = "done"]
    /\ UNCHANGED <<cp_dict, cp_keys, cp_lists, cp_before, files, sync_history>>
    /\ UNCHANGED TwoPollsFrame
    /\ UNCHANGED OtherThanTwoPolls

PollStep(t) ==
    \/ PollBegins(t)
    \/ PollClassifies(t)
    \/ PollMarksDeleted(t)
    \/ PollTriggers(t)

NextTwoPolls ==
    \/ EarlierRun
    \/ \E t \in PollThreads : PollStep(t)

InitTwoPollsSpec == InitDetect /\ HandlerAtRest /\ InitSched /\ InitPoll /\ InitDb /\ PathAtRest /\ ListAtRest /\ TwoPollsAtRest /\ PollThreadsAtRest

SpecTwoPolls == InitTwoPollsSpec /\ [][NextTwoPolls]_vars

InitDetectSpec == InitDetect /\ HandlerAtRest /\ InitSched /\ InitPoll /\ InitDb /\ PathAtRest /\ ListAtRest /\ TwoPollsAtRest /\ PollThreadsAtRest

SpecDetect == InitDetectSpec /\ [][NextDetect]_vars

\* the same with listing requests that can fail
NextDetectHttpError ==
    \/ NextDetect
    \/ DetectPassHttpError

SpecDetectHttpError == InitDetectSpec /\ [][NextDetectHttpError]_vars

\* the same with enumerations that hold a file more than once
NextDetectListedTwice ==
    \/ NextDetect
    \/ DetectPassListedTwice

SpecDetectListedTwice == InitDetectSpec /\ [][NextDetectListedTwice]_vars

\* the same with trashed files that can come back
SpecDetectRestore == InitDetectSpec /\ [][NextDetectRestore]_vars

\* the same with storage calls that can fail
SpecDetectDbErrors == InitDetectSpec /\ [][NextDetectDbErrors]_vars

(***************************************************************************)
(* Specification of the error handler: execute_with_retry() calls, one at  *)
(* a time, each a sequence of attempts and sleeps; reset_error_stats()     *)
(* between calls.                                                          *)
(***************************************************************************)
InitRetry ==
    \E max \in 0..MaxRetriesBound, delay \in 1..MaxDelay : InitHandler(max, delay)

Attempt(ok, value) == [kind |-> "attempt", ok |-> ok, value |-> value]
Sleep(seconds) == [kind |-> "sleep", ok |-> FALSE, value |-> seconds]

\* execute_with_retry(func, operation_name=name) is called (lines 48-51)
Execute ==
    /\ ex_pc \in {"idle", "returned"}
    /\ calls < MaxCalls
    /\ \E name \in OpNames :
           /\ op_name' = name
           /\ count_before' = ErrorCount(error_counts, name)
    /\ retries' = 0
    /\ ex_trace' = <<>>
    /\ calls' = calls + 1
    /\ IF LoopCondition(0, max_retries)
       THEN /\ ex_pc' = "try"
            /\ UNCHANGED ex_ret
       ELSE /\ ex_pc' = "returned"
            /\ ex_ret' = ReturnValue(FALSE, None, None)
    /\ UNCHANGED <<max_retries, retry_delay_seconds, error_counts, last_errors>>
    /\ UNCHANGED OtherThanRetry

\* func() returns (lines 56-62)
AttemptSucceeds ==
    /\ ex_pc = "try"
    /\ \E result \in Results :
           /\ ex_trace' = Append(ex_trace, Attempt(TRUE, result))
           /\ ex_ret' = ReturnValue(TRUE, result, None)
    /\ error_counts' = CountsAfterSuccess(error_counts, op_name)
    /\ ex_pc' = "returned"
    /\ UNCHANGED <<max_retries, retry_delay_seconds, last_errors, op_name,
                   retries, calls, count_before>>
    /\ UNCHANGED OtherThanRetry

\* func() raises (lines 64-81)
AttemptFails ==
    /\ ex_pc = "try"
    /\ \E e \in Exceptions :
           /\ ex_trace' = Append(ex_trace, Attempt(FALSE, e))
           /\ last_errors' = LastErrorsAfterFailure(last_errors, op_name, e)
           /\ IF MoreRetries(retries, max_retries)
              THEN /\ ex_pc' = "sleep"
                   /\ UNCHANGED ex_ret
              ELSE /\ ex_pc' = "returned"
                   /\ ex_ret' = ReturnValue(FALSE, None, e)
    /\ error_counts' = CountsAfterFailure(error_counts, op_name)
    /\ UNCHANGED <<max_retries, retry_delay_seconds, op_name, retries, calls,
                   count_before>>
    /\ UNCHANGED OtherThanRetry

\* time.sleep(retry_delay_seconds); retries += 1; back to the loop condition
\* (lines 74-75, 51)
SleepBeforeRetry ==
    /\ ex_pc = "sleep"
    /\ ex_trace' = Append(ex_trace, Sleep(retry_delay_seconds))
    /\ retries' = retries + 1
    /\ IF LoopCondition(retries + 1, max_retries)
       THEN /\ ex_pc' = "try"
            /\ UNCHANGED ex_ret
       ELSE /\ ex_pc' = "returned"
            /\ ex_ret' = ReturnValue(FALSE, None, None)
    /\ UNCHANGED <<max_retries, retry_delay_seconds, error_counts, last_errors,
                   op_name, calls, count_before>>
    /\ UNCHANGED OtherThanRetry

\* reset_error_stats(operation_name), between calls
ResetCall(operation_name) ==
    /\ ex_pc \in {"idle", "returned"}
    /\ \E after \in {reset_error_stats(error_counts, last_errors, operation_name)} :
           /\ error_counts' = after.counts
           /\ last_errors' = after.errors
    /\ ex_pc' = "idle"
    /\ UNCHANGED <<max_retries, retry_delay_seconds, op_name, retries,
                   ex_ret, calls, ex_trace, count_before>>
    /\ UNCHANGED OtherThanRetry

\* reset_error_stats(name)
ResetStats == \E name \in OpNames : ResetCall(name)

\* reset_error_stats(), and reset_error_stats('')
ResetAllStats == \E operation_name \in {None, ""} : ResetCall(operation_name)

NextRetry ==
    \/ Execute
    \/ AttemptSucceeds
    \/ AttemptFails
    \/ SleepBeforeRetry
    \/ ResetStats
    \/ ResetAllStats

InitRetrySpec == InitDetect /\ InitRetry /\ InitSched /\ InitPoll /\ InitDb /\ PathAtRest /\ ListAtRest /\ TwoPollsAtRest /\ PollThreadsAtRest

SpecRetry == InitRetrySpec /\ [][NextRetry]_vars

(***************************************************************************)
(* Specification of the scheduler: its methods are called from caller      *)
(* threads while the loop thread ticks; the clock advances at any moment,  *)
(* also while a task runs.                                                 *)
(***************************************************************************)
LoopVars == <<lp_pc, lp_now, lp_idx, lp_wake, tick_done>>
CallerVars == <<c_pc, c_task, c_ret, c_all>>

\* the threads inside _run_task
Executing ==
    {l \in LoopThreads : lp_pc[l] = "run"} \cup {c \in Callers : c_pc[c] = "run"}

\* time passes
ClockTick ==
    /\ clock < MaxClock
    /\ clock' = clock + 1
    /\ UNCHANGED <<tasks, task_order, running, thread, lock, LoopVars, CallerVars,
                   api_calls, task_log>>
    /\ UNCHANGED OtherThanSched

\* add_task(task_id, func, interval_seconds)
AddTask ==
    /\ api_calls < MaxApiCalls
    /\ LockFree(lock)
    /\ \E task_id \in TaskIds, interval_seconds \in Intervals :
           /\ tasks' = [id \in DOMAIN tasks \cup {task_id} |->
                           IF id = task_id
                           THEN NewTaskInfo(interval_seconds, clock)
                           ELSE tasks[id]]
           /\ task_order' = OrderAfterAdd(task_order, task_id)
           /\ task_log' = [task_log EXCEPT ![task_id] =
                              [added_at |-> clock, fresh |-> TRUE,
                               updated |-> FALSE, fired |-> <<>>,
                               raised |-> NeverRun]]
    /\ api_calls' = api_calls + 1
    /\ UNCHANGED <<running, thread, lock, clock, LoopVars, CallerVars>>
    /\ UNCHANGED OtherThanSched

\* remove_task(task_id)
RemoveTask ==
    /\ api_calls < MaxApiCalls
    /\ LockFree(lock)
    /\ \E task_id \in TaskIds :
           IF task_id \in DOMAIN tasks
           THEN /\ tasks' = [id \in DOMAIN tasks \ {task_id} |-> tasks[id]]
                /\ task_order' = OrderAfterRemove(task_order, task_id)
                /\ task_log' = [task_log EXCEPT ![task_id] = NoLog]
           ELSE UNCHANGED <<tasks, task_order, task_log>>
    /\ api_calls' = api_calls + 1
    /\ UNCHANGED <<running, thread, lock, clock, LoopVars, CallerVars>>
    /\ UNCHANGED OtherThanSched

\* update_task_interval(task_id, interval_seconds)
UpdateTaskInterval ==
    /\ api_calls < MaxApiCalls
    /\ LockFree(lock)
    /\ \E task_id \in TaskIds, interval_seconds \in Intervals :
           IF task_id \in DOMAIN tasks
           THEN /\ tasks' = [tasks EXCEPT ![task_id].interval = interval_seconds]
                /\ task_log' = [task_log EXCEPT ![task_id].updated = TRUE]
           ELSE UNCHANGED <<tasks, task_log>>
    /\ api_calls' = api_calls + 1
    /\ UNCHANGED <<task_order, running, thread, lock, clock, LoopVars, CallerVars>>
    /\ UNCHANGED OtherThanSched

\* start(): a second call while running returns at once
Start ==
    /\ api_calls < MaxApiCalls
    /\ api_calls' = api_calls + 1
    /\ IF running
       THEN UNCHANGED <<running, thread, lp_pc>>
       ELSE /\ \E l \in LoopThreads :
                   /\ lp_pc[l] = "unborn"
                   /\ \A k \in LoopThreads : k < l => lp_pc[k] # "unborn"
                   /\ thread' = l
                   /\ lp_pc' = [lp_pc EXCEPT ![l] = "while"]
            /\ running' = TRUE
    /\ UNCHANGED <<tasks, task_order, lock, clock, lp_now, lp_idx, lp_wake,
                   tick_done, CallerVars, task_log>>
    /\ UNCHANGED OtherThanSched

\* stop(): the join returns when the thread has ended or after its timeout
Stop ==
    /\ api_calls < MaxApiCalls
    /\ api_calls' = api_calls + 1
    /\ IF running
       THEN /\ running' = FALSE
            /\ thread' = NoThread
       ELSE UNCHANGED <<running, thread>>
    /\ UNCHANGED <<tasks, task_order, lock, clock, LoopVars, CallerVars, task_log>>
    /\ UNCHANGED OtherThanSched

\* _scheduler_loop, `while self.running: now = datetime.now()` (lines 107-108)
LoopSample(l) ==
    /\ lp_pc[l] = "while"
    /\ IF WhileRunning(running)
       THEN /\ lp_now' = [lp_now EXCEPT ![l] = clock]
            /\ lp_pc' = [lp_pc EXCEPT ![l] = "lock"]
       ELSE /\ lp_pc' = [lp_pc EXCEPT ![l] = "ended"]
            /\ UNCHANGED lp_now
    /\ UNCHANGED <<tasks, task_order, running, thread, lock, clock, lp_idx,
                   lp_wake, tick_done, CallerVars, api_calls, task_log>>
    /\ UNCHANGED OtherThanSched

\* `with self.lock:` is entered and the iteration over tasks begins (110-111)
LoopAcquire(l) ==
    /\ lp_pc[l] = "lock"
    /\ LockFree(lock)
    /\ lock' = l
    /\ lp_idx' = [lp_idx EXCEPT ![l] = 1]
    /\ tick_done' = [tick_done EXCEPT ![l] = <<>>]
    /\ lp_pc' = [lp_pc EXCEPT ![l] = "scan"]
    /\ UNCHANGED <<tasks, task_order, running, thread, clock, lp_now, lp_wake,
                   CallerVars, api_calls, task_log>>
    /\ UNCHANGED OtherThanSched

\* the next task is not due (line 112 false)
LoopSkip(l) ==
    /\ lp_pc[l] = "scan"
    /\ lp_idx[l] <= Len(task_order)
    /\ ~IsDue(lp_now[l], tasks[task_order[lp_idx[l]]])
    /\ lp_idx' = [lp_idx EXCEPT ![l] = lp_idx[l] + 1]
    /\ task_log' = [task_log EXCEPT ![task_order[lp_idx[l]]].fresh = FALSE]
    /\ UNCHANGED <<tasks, task_order, running, thread, lock, clock, lp_pc, lp_now,
                   lp_wake, tick_done, CallerVars, api_calls>>
    /\ UNCHANGED OtherThanSched

\* the next task is due and _run_task calls its function (lines 112-114, 96)
LoopDispatch(l) ==
    /\ lp_pc[l] = "scan"
    /\ lp_idx[l] <= Len(task_order)
    /\ IsDue(lp_now[l], tasks[task_order[lp_idx[l]]])
    /\ lp_pc' = [lp_pc EXCEPT ![l] = "run"]
    /\ task_log' = [task_log EXCEPT ![task_order[lp_idx[l]]] =
                       [@ EXCEPT !.fresh = FALSE,
                                 !.fired = LastTwo(@, <<lp_now[l],
                                     tasks[task_order[lp_idx[l]]].interval>>)]]
    /\ UNCHANGED <<tasks, task_order, running, thread, lock, clock, lp_now, lp_idx,
                   lp_wake, tick_done, CallerVars, api_calls>>
    /\ UNCHANGED OtherThanSched

\* the task's function returns or raises, and the loop reschedules the task
\* (lines 97-101, 117)
LoopTaskEnds(l) ==
    /\ lp_pc[l] = "run"
    /\ \E succeeded \in BOOLEAN :
           /\ tasks' = [tasks EXCEPT ![task_order[lp_idx[l]]] =
                           [AfterRunTask(@, succeeded, clock) EXCEPT !.next_run =
                               NextRunAfterDispatch(lp_now[l], clock,
                                   tasks[task_order[lp_idx[l]]].interval)]]
           /\ lp_pc' = [lp_pc EXCEPT ![l] = LoopAfterRunTask(succeeded)]
           /\ task_log' = [task_log EXCEPT ![task_order[lp_idx[l]]].raised =
                               IF succeeded THEN NeverRun ELSE lp_now[l]]
    /\ tick_done' = [tick_done EXCEPT ![l] = Append(@, task_order[lp_idx[l]])]
    /\ lp_idx' = [lp_idx EXCEPT ![l] = lp_idx[l] + 1]
    /\ UNCHANGED <<task_order, running, thread, lock, clock, lp_now, lp_wake,
                   CallerVars, api_calls>>
    /\ UNCHANGED OtherThanSched

\* the iteration is over: the lock is released and sleep(1) begins (line 121)
LoopRelease(l) ==
    /\ lp_pc[l] = "scan"
    /\ lp_idx[l] > Len(task_order)
    /\ lock' = NoThread
    /\ lp_wake' = [lp_wake EXCEPT ![l] = clock + 1]
    /\ tick_done' = [tick_done EXCEPT ![l] = <<>>]
    /\ lp_pc' = [lp_pc EXCEPT ![l] = "sleep"]
    /\ UNCHANGED <<tasks, task_order, running, thread, clock, lp_now, lp_idx,
                   CallerVars, api_calls, task_log>>
    /\ UNCHANGED OtherThanSched

\* sleep(1) returns
LoopWake(l) ==
    /\ lp_pc[l] = "sleep"
    /\ clock >= lp_wake[l]
    /\ lp_pc' = [lp_pc EXCEPT ![l] = "while"]
    /\ UNCHANGED <<tasks, task_order, running, thread, lock, clock, lp_now, lp_idx,
                   lp_wake, tick_done, CallerVars, api_calls, task_log>>
    /\ UNCHANGED OtherThanSched

\* run_task_now(task_id) is called and waits for the lock (line 196)
RunTaskNowCall(c) ==
    /\ api_calls < MaxApiCalls
    /\ c_pc[c] = "idle"
    /\ \E task_id \in TaskIds : c_task' = [c_task EXCEPT ![c] = task_id]
    /\ c_pc' = [c_pc EXCEPT ![c] = "lock"]
    /\ c_ret' = [c_ret EXCEPT ![c] = NotReturned]
    /\ api_calls' = api_calls + 1
    /\ UNCHANGED <<tasks, task_order, running, thread, lock, clock, LoopVars,
                   task_log, c_all>>
    /\ UNCHANGED OtherThanSched

\* the lock is entered; a known task starts to run, an unknown id returns
\* False (lines 196-199, 203)
RunTaskNowEnter(c) ==
    /\ c_pc[c] = "lock"
    /\ LockFree(lock)
    /\ IF c_task[c] \in DOMAIN tasks
       THEN /\ lock' = c
            /\ c_pc' = [c_pc EXCEPT ![c] = "run"]
            /\ UNCHANGED c_ret
       ELSE /\ UNCHANGED lock
            /\ c_pc' = [c_pc EXCEPT ![c] = "idle"]
            /\ c_ret' = [c_ret EXCEPT ![c] = ReturnedFalse]
    /\ UNCHANGED <<tasks, task_order, running, thread, clock, LoopVars, c_task,
                   api_calls, task_log, c_all>>
    /\ UNCHANGED OtherThanSched

\* the task's function returns or raises; next_run is reset and the lock
\* released (lines 97-101, 201-202)
RunTaskNowEnds(c) ==
    /\ c_pc[c] = "run"
    /\ \E succeeded \in BOOLEAN :
           tasks' = [tasks EXCEPT ![c_task[c]] =
                        [AfterRunTask(@, succeeded, clock) EXCEPT !.next_run =
                            NextRunAfterRunNow(clock, tasks[c_task[c]].interval)]]
    /\ task_log' = [task_log EXCEPT ![c_task[c]].fresh = FALSE]
    /\ lock' = NoThread
    /\ c_pc' = [c_pc EXCEPT ![c] = "idle"]
    /\ c_ret' = [c_ret EXCEPT ![c] = ReturnedTrue]
    /\ UNCHANGED <<task_order, running, thread, clock, LoopVars, c_task,
                   api_calls, c_all>>
    /\ UNCHANGED OtherThanSched

\* get_task_status(task_id) is called and waits for the lock (line 163)
GetTaskStatusCall(c) ==
    /\ api_calls < MaxApiCalls
    /\ c_pc[c] = "idle"
    /\ \E task_id \in TaskIds : c_task' = [c_task EXCEPT ![c] = task_id]
    /\ c_pc' = [c_pc EXCEPT ![c] = "status_lock"]
    /\ c_ret' = [c_ret EXCEPT ![c] = NotReturned]
    /\ c_all' = [c_all EXCEPT ![c] = NoStatusesCall]
    /\ api_calls' = api_calls + 1
    /\ UNCHANGED <<tasks, task_order, running, thread, lock, clock, LoopVars,
                   task_log>>
    /\ UNCHANGED OtherThanSched

\* get_task_status enters the lock, reads the task and leaves the lock
\* (lines 163-171); inside get_all_task_statuses its value goes into
\* statuses and the iteration goes on (line 183)
GetTaskStatusEnter(c) ==
    /\ c_pc[c] = "status_lock"
    /\ LockFree(lock)
    /\ \E status \in {get_task_status(tasks, c_task[c])} :
           IF c_all[c].active
           THEN /\ c_all' = [c_all EXCEPT ![c] =
                                [@ EXCEPT !.statuses = (c_task[c] :> status) @@ @,
                                          !.idx = @ + 1]]
                /\ c_pc' = [c_pc EXCEPT ![c] = "all_iter"]
                /\ UNCHANGED c_ret
           ELSE /\ c_all' = [c_all EXCEPT ![c].statuses = (c_task[c] :> status)]
                /\ c_pc' = [c_pc EXCEPT ![c] = "idle"]
                /\ c_ret' = [c_ret EXCEPT ![c] = ReturnedStatus]
    /\ UNCHANGED <<tasks, task_order, running, thread, lock, clock, LoopVars,
                   c_task, api_calls, task_log>>
    /\ UNCHANGED OtherThanSched

\* get_all_task_statuses() is called and waits for the lock (lines 180-181)
GetAllTaskStatusesCall(c) ==
    /\ api_calls < MaxApiCalls
    /\ c_pc[c] = "idle"
    /\ c_pc' = [c_pc EXCEPT ![c] = "all_lock"]
    /\ c_ret' = [c_ret EXCEPT ![c] = NotReturned]
    /\ c_all' = [c_all EXCEPT ![c] = [active |-> TRUE, idx |-> 1,
                                       statuses |-> EmptyMap]]
    /\ api_calls' = api_calls + 1
    /\ UNCHANGED <<tasks, task_order, running, thread, lock, clock, LoopVars,
                   c_task, task_log>>
    /\ UNCHANGED OtherThanSched

\* `with self.lock:` of get_all_task_statuses is entered (line 181)
GetAllTaskStatusesEnter(c) ==
    /\ c_pc[c] = "all_lock"
    /\ LockFree(lock)
    /\ lock' = c
    /\ c_pc' = [c_pc EXCEPT ![c] = "all_iter"]
    /\ UNCHANGED <<tasks, task_order, running, thread, clock, LoopVars, c_task,
                   c_ret, c_all, api_calls, task_log>>
    /\ UNCHANGED OtherThanSched

\* the iteration over self.tasks: the next task's get_task_status is called
\* with the lock held (lines 182-183), or the iteration is over, the lock
\* is left and statuses returned (line 184)
GetAllTaskStatusesNext(c) ==
    /\ c_pc[c] = "all_iter"
    /\ IF c_all[c].idx <= Len(task_order)
       THEN /\ c_task' = [c_task EXCEPT ![c] = task_order[c_all[c].idx]]
            /\ c_pc' = [c_pc EXCEPT ![c] = "status_lock"]
            /\ UNCHANGED <<lock, c_ret, c_all>>
       ELSE /\ lock' = NoThread
            /\ c_pc' = [c_pc EXCEPT ![c] = "idle"]
            /\ c_ret' = [c_ret EXCEPT ![c] = ReturnedStatuses]
            /\ c_all' = [c_all EXCEPT ![c].active = FALSE]
            /\ UNCHANGED c_task
    /\ UNCHANGED <<tasks, task_order, running, thread, clock, LoopVars,
                   api_calls, task_log>>
    /\ UNCHANGED OtherThanSched

LoopStep ==
    \E l \in LoopThreads :
        \/ LoopSample(l)
        \/ LoopAcquire(l)
        \/ LoopSkip(l)
        \/ LoopDispatch(l)
        \/ LoopTaskEnds(l)
        \/ LoopRelease(l)
        \/ LoopWake(l)

RunTaskNowStep ==
    \E c \in Callers :
        \/ RunTaskNowCall(c)
        \/ RunTaskNowEnter(c)
        \/ RunTaskNowEnds(c)

NextSched ==
    \/ ClockTick
    \/ AddTask
    \/ RemoveTask
    \/ UpdateTaskInterval
    \/ Start
    \/ Stop
    \/ LoopStep
    \/ RunTaskNowStep

InitSchedSpec == InitDetect /\ HandlerAtRest /\ InitSched /\ InitPoll /\ InitDb /\ PathAtRest /\ ListAtRest /\ TwoPollsAtRest /\ PollThreadsAtRest

SpecSched == InitSchedSpec /\ [][NextSched]_vars

(***************************************************************************)
(* Specification of start() and stop() called one after the other, with    *)
(* stop() in two steps: it clears the flag, and its join returns when the  *)
(* loop thread has ended or, after the timeout of 5 seconds, while the     *)
(* thread is still inside a task's function.  A thread in sleep(1) or at   *)
(* the `while` ends within the timeout.                                    *)
(***************************************************************************)
\* stop() has cleared the flag and is in its join (lines 143-145)
Joining == ~running /\ thread # NoThread

\* join(timeout=5) gives up: the thread is in a task's function
JoinTimesOut(l) == lp_pc[l] = "run"

\* start(), called when no stop() is under way
StartCall == ~Joining /\ Start

\* stop() lines 139-143: the flag is cleared (a stop() while not running
\* returns at once and changes nothing)
StopBegins ==
    /\ running
    /\ running' = FALSE
    /\ UNCHANGED <<tasks, task_order, thread, lock, clock, LoopVars, CallerVars,
                   api_calls, task_log>>
    /\ UNCHANGED OtherThanSched

\* stop() lines 144-151: the join returns and self.thread is forgotten
StopJoinEnds ==
    /\ Joining
    /\ lp_pc[thread] = "ended" \/ JoinTimesOut(thread)
    /\ thread' = NoThread
    /\ UNCHANGED <<tasks, task_order, running, lock, clock, LoopVars, CallerVars,
                   api_calls, task_log>>
    /\ UNCHANGED OtherThanSched

NextStartStop ==
    \/ ClockTick
    \/ AddTask
    \/ StartCall
    \/ StopBegins
    \/ StopJoinEnds
    \/ LoopStep

InitStartStopSpec == InitDetect /\ HandlerAtRest /\ InitSched /\ InitPoll /\ InitDb /\ PathAtRest /\ ListAtRest /\ TwoPollsAtRest /\ PollThreadsAtRest

SpecStartStop == InitStartStopSpec /\ [][NextStartStop]_vars

(***************************************************************************)
(* Specification of the status calls: tasks are added and removed, the     *)
(* scheduler is started and stopped, and a caller thread asks for the      *)
(* status of one task or of all.  A thread that can take a step takes it,  *)
(* and a thread that waits for the lock gets it when the lock is free      *)
(* again and again.                                                        *)
(***************************************************************************)
StatusStep ==
    \E c \in Callers :
        \/ GetTaskStatusCall(c)
        \/ GetTaskStatusEnter(c)
        \/ GetAllTaskStatusesCall(c)
        \/ GetAllTaskStatusesEnter(c)
        \/ GetAllTaskStatusesNext(c)

NextStatuses ==
    \/ ClockTick
    \/ AddTask
    \/ RemoveTask
    \/ Start
    \/ Stop
    \/ LoopStep
    \/ StatusStep

FairStatuses ==
    /\ WF_vars(ClockTick)
    /\ \A l \in LoopThreads :
           /\ WF_vars(LoopSample(l) \/ LoopSkip(l) \/ LoopDispatch(l)
                         \/ LoopTaskEnds(l) \/ LoopRelease(l) \/ LoopWake(l))
           /\ SF_vars(LoopAcquire(l))
    /\ \A c \in Callers :
           /\ SF_vars(GetTaskStatusEnter(c))
           /\ SF_vars(GetAllTaskStatusesEnter(c))
           /\ WF_vars(GetAllTaskStatusesNext(c))

InitStatusesSpec == InitDetect /\ HandlerAtRest /\ InitSched /\ InitPoll /\ InitDb /\ PathAtRest /\ ListAtRest /\ TwoPollsAtRest /\ PollThreadsAtRest

SpecStatuses == InitStatusesSpec /\ [][NextStatuses]_vars /\ FairStatuses

(***************************************************************************)
(* Specification of the polling system: handlers are registered between    *)
(* polls; a poll is run by a call of poll_now() or by the thread of        *)
(* _polling_loop, one poll at a time, one handler invocation per step.     *)
(***************************************************************************)
PollHistory == <<poll_trace, raised_at, detect_exc>>

\* the outcome of the last poll is forgotten
ForgetPoll ==
    /\ poll_lists' = EmptyLists
    /\ poll_ret' = NotReturnedYet
    /\ poll_trace' = <<>>
    /\ raised_at' = 0
    /\ detect_exc' = NoException

\* register_callback(event_type, callback)
RegisterCallback ==
    /\ poll_pc = "idle"
    /\ Registered(callbacks, 1) < MaxCallbacks
    /\ \E event_type \in EventTypes \cup {UnknownEvent}, callback \in Handlers :
           callbacks' = register_callback(callbacks, event_type, callback)
    /\ ForgetPoll
    /\ UNCHANGED <<p_running, pl_pc, poll_by, poll_pc, poll_pos, polls>>
    /\ UNCHANGED <<OtherThanPoll, RetryVars>>

\* unregister_callback(event_type, callback)
UnregisterCallback ==
    /\ poll_pc = "idle"
    /\ \E event_type \in EventTypes \cup {UnknownEvent}, callback \in Handlers :
           callbacks' = unregister_callback(callbacks, event_type, callback)
    /\ ForgetPoll
    /\ UNCHANGED <<p_running, pl_pc, poll_by, poll_pc, poll_pos, polls>>
    /\ UNCHANGED <<OtherThanPoll, RetryVars>>

\* a poll begins: the state of the poll in progress
BeginPoll(by) ==
    /\ poll_pc = "idle"
    /\ polls < MaxPolls
    /\ poll_by' = by
    /\ poll_pc' = "detect"
    /\ poll_lists' = EmptyLists
    /\ poll_pos' = Position(Done, 1, 1)
    /\ polls' = polls + 1
    /\ poll_trace' = <<>>
    /\ raised_at' = 0
    /\ detect_exc' = NoException

\* a poll is over
EndPoll ==
    /\ poll_by' = "nobody"
    /\ poll_pc' = "idle"

\* poll_now() is called (lines 157-159)
PollNowCall ==
    /\ BeginPoll("poll_now")
    /\ poll_ret' = NotReturnedYet
    /\ UNCHANGED <<callbacks, p_running, pl_pc>>
    /\ UNCHANGED <<OtherThanPoll, RetryVars>>

\* detect_changes() returns its three lists (lines 163 and 130)
DetectReturns ==
    /\ poll_pc = "detect"
    /\ \E lists \in DetectResults :
           /\ poll_lists' = lists
           /\ poll_pos' = Normalize(callbacks, lists, Position(1, 1, 1))
    /\ poll_pc' = "dispatch"
    /\ UNCHANGED <<callbacks, p_running, pl_pc, poll_by, poll_ret, polls, PollHistory>>
    /\ UNCHANGED <<OtherThanPoll, RetryVars>>

\* detect_changes() raises inside poll_now() (lines 164-173, 182-185)
PollNowDetectRaises ==
    /\ poll_pc = "detect"
    /\ poll_by = "poll_now"
    /\ \E message \in Messages :
           /\ detect_exc' = message
           /\ poll_ret' = PollNowOnError(message)
    /\ EndPoll
    /\ UNCHANGED <<callbacks, p_running, pl_pc, poll_lists, poll_pos, polls,
                   poll_trace, raised_at>>
    /\ UNCHANGED <<OtherThanPoll, RetryVars>>

\* a handler is invoked and returns or raises (lines 97-102, 115-119)
HandlerInvoked ==
    /\ poll_pc = "dispatch"
    /\ poll_pos.phase < Done
    /\ poll_trace' = Append(poll_trace, Invocation(poll_lists, poll_pos))
    /\ \E raised \in BOOLEAN :
           /\ raised_at' = IF raised /\ raised_at = 0
                           THEN Len(poll_trace) + 1 ELSE raised_at
           /\ poll_pos' = AfterInvocation(callbacks, poll_lists, poll_pos, raised)
    /\ UNCHANGED <<callbacks, p_running, pl_pc, poll_by, poll_pc, poll_lists, poll_ret,
                   polls, detect_exc>>
    /\ UNCHANGED <<OtherThanPoll, RetryVars>>

\* poll_now() returns the three lists (line 181)
PollNowReturns ==
    /\ poll_pc = "dispatch"
    /\ poll_pos.phase = Done
    /\ poll_by = "poll_now"
    /\ poll_ret' = OuterExcept(Returns(poll_lists))
    /\ EndPoll
    /\ UNCHANGED <<callbacks, p_running, pl_pc, poll_lists, poll_pos, polls,
                   PollHistory>>
    /\ UNCHANGED <<OtherThanPoll, RetryVars>>

\* PollingSystem.start() (lines 52-69); the thread of an earlier start has ended
PollingStart ==
    /\ IF p_running
       THEN UNCHANGED <<p_running, pl_pc>>
       ELSE /\ pl_pc \in {"unborn", "ended"}
            /\ p_running' = TRUE
            /\ pl_pc' = "while"
    /\ UNCHANGED <<callbacks, poll_by, poll_pc, poll_lists, poll_pos, poll_ret, polls,
                   PollHistory>>
    /\ UNCHANGED <<OtherThanPoll, RetryVars>>

\* PollingSystem.stop() (lines 71-85)
PollingStop ==
    /\ p_running' = FALSE
    /\ UNCHANGED <<callbacks, pl_pc, poll_by, poll_pc, poll_lists, poll_pos, poll_ret,
                   polls, PollHistory>>
    /\ UNCHANGED <<OtherThanPoll, RetryVars>>

\* _polling_loop, `while self.running:` and the start of a poll (lines 123-127)
LoopWhile ==
    /\ pl_pc = "while"
    /\ IF WhileRunning(p_running)
       THEN /\ BeginPoll("loop")
            /\ pl_pc' = "poll"
       ELSE /\ pl_pc' = "ended"
            /\ UNCHANGED <<poll_by, poll_pc, poll_lists, poll_pos, polls, PollHistory>>
    /\ UNCHANGED <<callbacks, p_running, poll_ret>>
    /\ UNCHANGED <<OtherThanPoll, RetryVars>>

\* where the loop thread stands when its try block raised, were the
\* exception to leave _polling_loop
LoopAfterExceptionUncaught == "ended"

\* where the loop thread stands when its try block raised: the except clause
\* and its sleep(10) (lines 145-148)
LoopAfterException == "error_sleep"

\* detect_changes() raises inside _polling_loop (lines 129, 145-148)
LoopDetectRaises ==
    /\ poll_pc = "detect"
    /\ poll_by = "loop"
    /\ \E message \in Messages : detect_exc' = message
    /\ EndPoll
    /\ pl_pc' = LoopAfterException
    /\ UNCHANGED <<callbacks, p_running, poll_lists, poll_pos, poll_ret, polls,
                   poll_trace, raised_at>>
    /\ UNCHANGED <<OtherThanPoll, RetryVars>>

\* the loop's poll is over and it sleeps until the next one (lines 138-143)
LoopPollEnds ==
    /\ poll_pc = "dispatch"
    /\ poll_pos.phase = Done
    /\ poll_by = "loop"
    /\ EndPoll
    /\ pl_pc' = "sleep"
    /\ UNCHANGED <<callbacks, p_running, poll_lists, poll_pos, poll_ret, polls,
                   PollHistory>>
    /\ UNCHANGED <<OtherThanPoll, RetryVars>>

\* the loop's sleep is over (lines 140-143, 148)
LoopSleepEnds ==
    /\ pl_pc \in {"sleep", "error_sleep"}
    /\ pl_pc' = "while"
    /\ UNCHANGED <<callbacks, p_running, poll_by, poll_pc, poll_lists, poll_pos,
                   poll_ret, polls, PollHistory>>
    /\ UNCHANGED <<OtherThanPoll, RetryVars>>

\* poll_now() called on a polling system whose handlers come and go
NextPoll ==
    \/ RegisterCallback
    \/ UnregisterCallback
    \/ PollNowCall
    \/ DetectReturns
    \/ PollNowDetectRaises
    \/ HandlerInvoked
    \/ PollNowReturns

InitPollSpec == InitDetect /\ HandlerAtRest /\ InitSched /\ InitPoll /\ InitDb /\ PathAtRest /\ ListAtRest /\ TwoPollsAtRest /\ PollThreadsAtRest

SpecPoll == InitPollSpec /\ [][NextPoll]_vars

\* the legacy polling loop: start(), stop() and the thread of _polling_loop
NextPollingLoop ==
    \/ RegisterCallback
    \/ PollingStart
    \/ PollingStop
    \/ LoopWhile
    \/ DetectReturns
    \/ LoopDetectRaises
    \/ HandlerInvoked
    \/ LoopPollEnds
    \/ LoopSleepEnds

InitPollingLoopSpec == InitDetect /\ HandlerAtRest /\ InitSched /\ InitPoll /\ InitDb /\ PathAtRest /\ ListAtRest /\ TwoPollsAtRest /\ PollThreadsAtRest

SpecPollingLoop == InitPollingLoopSpec /\ [][NextPollingLoop]_vars

(***************************************************************************)
(* Specification of PollingSystem.start() and stop() called one after the  *)
(* other, with the threads they leave behind.  stop() clears the flag and  *)
(* joins self.thread for at most 5 seconds: the join returns when the      *)
(* thread has ended, or gives up while the thread is in a detection pass   *)
(* or in the sleep(10) after an error.  A thread in a sleep(1) step ends   *)
(* within the timeout.  A pass is one step here: it returns or raises.     *)
(***************************************************************************)
PollFrame == <<callbacks, pl_pc, poll_by, poll_pc, poll_lists, poll_pos, poll_ret,
               polls, PollHistory>>

\* start() (lines 59-69)
PollingStartCall ==
    /\ ~pt_join
    /\ IF p_running
       THEN /\ pt_ret' = ReturnedFalse
            /\ UNCHANGED <<p_running, pt_pc, pt_thread>>
       ELSE /\ \E l \in PollingThreads :
                   /\ pt_pc[l] = "unborn"
                   /\ \A k \in PollingThreads : k < l => pt_pc[k] # "unborn"
                   /\ pt_thread' = l
                   /\ pt_pc' = [pt_pc EXCEPT ![l] = "while"]
            /\ p_running' = TRUE
            /\ pt_ret' = ReturnedTrue
    /\ UNCHANGED <<pt_left, pt_join>>
    /\ UNCHANGED PollFrame
    /\ UNCHANGED OtherThanPollThreads

\* stop() lines 78-82: not running, or the flag is cleared and the join begins
PollingStopBegins ==
    /\ ~pt_join
    /\ IF ~p_running
       THEN /\ pt_ret' = ReturnedFalse
            /\ UNCHANGED <<p_running, pt_join>>
       ELSE /\ p_running' = FALSE
            /\ pt_join' = TRUE
            /\ pt_ret' = NotReturned
    /\ UNCHANGED <<pt_pc, pt_left, pt_thread>>
    /\ UNCHANGED PollFrame
    /\ UNCHANGED OtherThanPollThreads

\* join(timeout=5.0) gives up
PollingJoinTimesOut(l) == pt_pc[l] \in {"pass", "error_sleep"}

\* stop() lines 83-87: the join returns
PollingStopJoinEnds ==
    /\ pt_join
    /\ pt_pc[pt_thread] = "ended" \/ PollingJoinTimesOut(pt_thread)
    /\ pt_join' = FALSE
    /\ pt_ret' = ReturnedTrue
    /\ UNCHANGED <<p_running, pt_pc, pt_left, pt_thread>>
    /\ UNCHANGED PollFrame
    /\ UNCHANGED OtherThanPollThreads

\* a step of polling thread l that leaves it at pc with `left` seconds to sleep
ThreadGoes(l, pc, left) ==
    /\ pt_pc' = [pt_pc EXCEPT ![l] = pc]
    /\ pt_left' = [pt_left EXCEPT ![l] = left]
    /\ UNCHANGED <<p_running, pt_thread, pt_join, pt_ret>>
    /\ UNCHANGED PollFrame
    /\ UNCHANGED OtherThanPollThreads

\* `while self.running:` (line 123)
ThreadWhile(l) ==
    /\ pt_pc[l] = "while"
    /\ IF WhileRunning(p_running)
       THEN ThreadGoes(l, "pass", 0)
       ELSE ThreadGoes(l, "ended", 0)

\* the pass and its callbacks are over (lines 129-138)
ThreadPassEnds(l) ==
    /\ pt_pc[l] = "pass"
    /\ ThreadGoes(l, "sleep", PollInterval)

\* the pass raised (lines 145-148)
ThreadPassRaises(l) ==
    /\ pt_pc[l] = "pass"
    /\ ThreadGoes(l, "error_sleep", 0)

\* one round of `for _ in range(self.interval)` (lines 140-143)
ThreadSleepStep(l) ==
    /\ pt_pc[l] = "sleep"
    /\ IF pt_left[l] = 0 \/ ~p_running
       THEN ThreadGoes(l, "while", 0)
       ELSE ThreadGoes(l, "sleep", pt_left[l] - 1)

\* sleep(10) returns (line 148)
ThreadBackoffEnds(l) ==
    /\ pt_pc[l] = "error_sleep"
    /\ ThreadGoes(l, "while", 0)

PollingThreadStep ==
    \E l \in PollingThreads :
        \/ ThreadWhile(l)
        \/ ThreadPassEnds(l)
        \/ ThreadPassRaises(l)
        \/ ThreadSleepStep(l)
        \/ ThreadBackoffEnds(l)

NextPollingThreads ==
    \/ PollingStartCall
    \/ PollingStopBegins
    \/ PollingStopJoinEnds
    \/ PollingThreadStep

InitPollingThreadsSpec == InitDetect /\ HandlerAtRest /\ InitSched /\ InitPoll /\ InitDb /\ PathAtRest /\ ListAtRest /\ TwoPollsAtRest /\ PollThreadsAtRest

SpecPollingThreads == InitPollingThreadsSpec /\ [][NextPollingThreads]_vars

(***************************************************************************)
(* Specification of the scheduled poll: main's poll_for_changes() hands    *)
(* polling_system.poll_now to execute_with_retry(), so every attempt of    *)
(* the call is one poll_now().                                             *)
(***************************************************************************)
\* register_event_handlers(): main registers the handlers before the first
\* scheduled poll (main.py lines 313-322, called ahead of scheduler.start())
RegisterEventHandler ==
    /\ calls = 0
    /\ RegisterCallback

\* poll_for_changes() calls execute_with_retry (main.py lines 488-493)
ExecutePoll ==
    /\ Execute
    /\ op_name' = "poll_for_changes"

\* an attempt begins: func() is poll_now() (error_handler.py line 56)
WrappedPollCall ==
    /\ ex_pc = "try"
    /\ op_name = "poll_for_changes"
    /\ BeginPoll("execute_with_retry")
    /\ poll_ret' = NotReturnedYet
    /\ UNCHANGED <<callbacks, p_running, pl_pc>>
    /\ UNCHANGED <<OtherThanPoll, RetryVars>>

\* execute_with_retry after func() has ended with `outcome`: the return of
\* lines 58-62, or the except clause of lines 64-81 with its sleep
AfterAttempt(outcome) ==
    IF outcome.kind = "return"
    THEN /\ ex_trace' = Append(ex_trace, Attempt(TRUE, outcome.lists))
         /\ error_counts' = CountsAfterSuccess(error_counts, op_name)
         /\ ex_ret' = ReturnValue(TRUE, outcome.lists, None)
         /\ ex_pc' = "returned"
         /\ UNCHANGED <<last_errors, retries>>
    ELSE /\ error_counts' = CountsAfterFailure(error_counts, op_name)
         /\ last_errors' = LastErrorsAfterFailure(last_errors, op_name, outcome.exc)
         /\ IF MoreRetries(retries, max_retries)
            THEN /\ ex_trace' = ex_trace \o <<Attempt(FALSE, outcome.exc),
                                             Sleep(retry_delay_seconds)>>
                 /\ retries' = retries + 1
                 /\ ex_pc' = "try"
                 /\ UNCHANGED ex_ret
            ELSE /\ ex_trace' = Append(ex_trace, Attempt(FALSE, outcome.exc))
                 /\ ex_ret' = ReturnValue(FALSE, None, outcome.exc)
                 /\ ex_pc' = "returned"
                 /\ UNCHANGED retries

\* detect_changes() raises inside the poll_now() of an attempt
WrappedDetectRaises ==
    /\ poll_pc = "detect"
    /\ poll_by = "execute_with_retry"
    /\ \E message \in Messages :
           /\ detect_exc' = message
           /\ poll_ret' = PollNowOnError(message)
           /\ AfterAttempt(PollNowOnError(message))
    /\ EndPoll
    /\ UNCHANGED <<callbacks, p_running, pl_pc, poll_lists, poll_pos, polls,
                   poll_trace, raised_at>>
    /\ UNCHANGED <<max_retries, retry_delay_seconds, op_name, calls, count_before>>
    /\ UNCHANGED OtherThanPoll

\* the poll_now() of an attempt returns its lists
WrappedPollReturns ==
    /\ poll_pc = "dispatch"
    /\ poll_pos.phase = Done
    /\ poll_by = "execute_with_retry"
    /\ poll_ret' = OuterExcept(Returns(poll_lists))
    /\ AfterAttempt(OuterExcept(Returns(poll_lists)))
    /\ EndPoll
    /\ UNCHANGED <<callbacks, p_running, pl_pc, poll_lists, poll_pos, polls,
                   PollHistory>>
    /\ UNCHANGED <<max_retries, retry_delay_seconds, op_name, calls, count_before>>
    /\ UNCHANGED OtherThanPoll

NextScheduledPoll ==
    \/ RegisterEventHandler
    \/ ExecutePoll
    \/ WrappedPollCall
    \/ DetectReturns
    \/ HandlerInvoked
    \/ WrappedDetectRaises
    \/ WrappedPollReturns

InitScheduledPollSpec == InitDetect /\ HandlerAtRest /\ InitSched /\ InitPoll /\ InitDb /\ PathAtRest /\ ListAtRest /\ TwoPollsAtRest /\ PollThreadsAtRest

SpecScheduledPoll == InitScheduledPollSpec /\ [][NextScheduledPoll]_vars

(***************************************************************************)
(* Specification of the database manager: threads call its operations, one *)
(* call per thread at a time; connecting, a statement and a commit can     *)
(* each raise a sqlite3.Error.                                             *)
(***************************************************************************)
\* a thread calls an operation
DbCallOp(t) ==
    /\ db_pc[t] = "idle"
    /\ db_calls < MaxDbCalls
    /\ \E call \in DbCalls :
           /\ db_call' = [db_call EXCEPT ![t] = call]
           /\ db_pc' = [db_pc EXCEPT ![t] = IF call.op \in WriteOps THEN "lock"
                                           ELSE "read"]
    /\ db_calls' = db_calls + 1
    /\ db_exists' = [db_exists EXCEPT ![t] = FALSE]
    /\ db_ret' = [db_ret EXCEPT ![t] = DbNotReturned]
    /\ db_error' = [db_error EXCEPT ![t] = NoError]
    /\ UNCHANGED <<db_store, db_dirty, db_lock, db_conn>>
    /\ UNCHANGED OtherThanDb

\* the call of thread t is over: `with self._lock:` is left, the call
\* returns or raises
DbEnd(t, ret) ==
    /\ db_ret' = [db_ret EXCEPT ![t] = ret]
    /\ db_pc' = [db_pc EXCEPT ![t] = "idle"]
    /\ db_lock' = IF db_lock = t THEN NoThread ELSE db_lock

\* an exception is raised inside the try block of the call of thread t
DbFails(t, exc) ==
    /\ db_error' = [db_error EXCEPT ![t] = exc]
    /\ DbEnd(t, DbExcept(db_call[t].op, exc))

\* `with self._lock:` is entered (lines 136, 215, 320, 346)
DbAcquire(t) ==
    /\ db_pc[t] = "lock"
    /\ RLockFree(db_lock, t)
    /\ db_lock' = t
    /\ db_pc' = [db_pc EXCEPT ![t] = "connect"]
    /\ UNCHANGED <<db_store, db_dirty, db_conn, db_call, db_exists, db_ret,
                   db_calls, db_error>>
    /\ UNCHANGED OtherThanDb

\* _get_connection() (lines 37-52) inside a write operation
DbConnect(t) ==
    /\ db_pc[t] = "connect"
    /\ \/ /\ db_conn' = [db_conn EXCEPT ![t] = TRUE]
          /\ db_pc' = [db_pc EXCEPT ![t] = IF db_call[t].op = "upsert_file"
                                          THEN "select" ELSE "execute"]
          /\ UNCHANGED <<db_lock, db_ret, db_error>>
       \/ /\ ~db_conn[t]
          /\ DbFails(t, "OperationalError")
          /\ UNCHANGED db_conn
    /\ UNCHANGED <<db_store, db_dirty, db_call, db_exists, db_calls>>
    /\ UNCHANGED OtherThanDb

\* the existence check of upsert_file (lines 140-145)
DbSelect(t) ==
    /\ db_pc[t] = "select"
    /\ \/ /\ db_exists' = [db_exists EXCEPT ![t] =
                  SelectExists(View(db_store, db_dirty, t).files, db_call[t].file_id)]
          /\ db_pc' = [db_pc EXCEPT ![t] = "execute"]
          /\ UNCHANGED <<db_lock, db_ret, db_error>>
       \/ /\ DbFails(t, "OperationalError")
          /\ UNCHANGED db_exists
    /\ UNCHANGED <<db_store, db_dirty, db_conn, db_call, db_calls>>
    /\ UNCHANGED OtherThanDb

\* the INSERT, UPDATE or DELETE of a write operation (lines 149-194,
\* 220-229, 323-326, 349-352): file_data['name'] raises KeyError; another
\* connection's open write transaction makes the statement fail (database
\* is locked); an INSERT of a present id fails on the primary key
DbExecute(t) ==
    /\ db_pc[t] = "execute"
    /\ LET call == db_call[t]
           st == View(db_store, db_dirty, t)
       IN IF ~call.has_name
          THEN DbFails(t, "KeyError") /\ UNCHANGED db_dirty
          ELSE IF db_dirty.owner \notin {NoThread, t}
          THEN DbFails(t, "OperationalError") /\ UNCHANGED db_dirty
          ELSE IF IsInsert(call, db_exists[t])
                  /\ PrimaryKeyViolated(st.files, call.file_id)
          THEN DbFails(t, "IntegrityError") /\ UNCHANGED db_dirty
          ELSE \/ /\ db_dirty' = [owner |-> t,
                                  store |-> Statement(st, call, db_exists[t])]
                  /\ db_pc' = [db_pc EXCEPT ![t] = "commit"]
                  /\ UNCHANGED <<db_lock, db_ret, db_error>>
               \/ /\ DbFails(t, "OperationalError")
                  /\ UNCHANGED db_dirty
    /\ UNCHANGED <<db_store, db_conn, db_call, db_exists, db_calls>>
    /\ UNCHANGED OtherThanDb

\* conn.commit() and `return True` (lines 196-197, 231-232, 327-328,
\* 353-354); a commit that fails leaves the transaction open
DbCommit(t) ==
    /\ db_pc[t] = "commit"
    /\ \/ /\ db_store' = View(db_store, db_dirty, t)
          /\ db_dirty' = IF db_dirty.owner = t THEN NoTransaction ELSE db_dirty
          /\ DbEnd(t, DbReturns(Typed("bool", TRUE)))
          /\ UNCHANGED db_error
       \/ /\ DbFails(t, "OperationalError")
          /\ UNCHANGED <<db_store, db_dirty>>
    /\ UNCHANGED <<db_conn, db_call, db_exists, db_calls>>
    /\ UNCHANGED OtherThanDb

\* get_file, get_all_files, get_files_by_status (lines 237-303): no lock;
\* _get_connection() or the SELECT can fail
DbRead(t) ==
    /\ db_pc[t] = "read"
    /\ \/ /\ db_conn' = [db_conn EXCEPT ![t] = TRUE]
          /\ DbEnd(t, DbReturns(ReadResult(View(db_store, db_dirty, t), db_call[t])))
          /\ UNCHANGED db_error
       \/ /\ \E connected \in (IF db_conn[t] THEN {TRUE} ELSE BOOLEAN) :
                 db_conn' = [db_conn EXCEPT ![t] = connected]
          /\ DbFails(t, "OperationalError")
    /\ UNCHANGED <<db_store, db_dirty, db_call, db_exists, db_calls>>
    /\ UNCHANGED OtherThanDb

NextDb ==
    \/ \E t \in DbThreads : DbCallOp(t)
    \/ \E t \in DbThreads : DbAcquire(t)
    \/ \E t \in DbThreads : DbConnect(t)
    \/ \E t \in DbThreads : DbSelect(t)
    \/ \E t \in DbThreads : DbExecute(t)
    \/ \E t \in DbThreads : DbCommit(t)
    \/ \E t \in DbThreads : DbRead(t)

InitDbSpec == InitDetect /\ HandlerAtRest /\ InitSched /\ InitPoll /\ InitDb /\ PathAtRest /\ ListAtRest /\ TwoPollsAtRest /\ PollThreadsAtRest

SpecDb == InitDbSpec /\ [][NextDb]_vars

(***************************************************************************)
(* Specification of path resolution: any metadata and any index records of *)
(* the chain folders, then build_file_path calls for a file named 1.       *)
(***************************************************************************)
InitPath ==
    /\ bp_meta \in [ChainFolders -> UNION {MetadataChoices(f) : f \in ChainFolders}]
    /\ \A f \in ChainFolders : bp_meta[f] \in MetadataChoices(f)
    /\ bp_index \in [ChainFolders -> UNION {IndexChoices(f) : f \in ChainFolders}]
    /\ \A f \in ChainFolders : bp_index[f] \in IndexChoices(f)
    /\ bp_parent = NoParent
    /\ bp_ret = NoPathYet

\* build_file_path(file_id, parent_id, file_name) is called
BuildPathCall ==
    /\ \E parent_id \in ParentIds :
           /\ bp_parent' = parent_id
           /\ bp_ret' = BuildFilePath(bp_meta, bp_index, parent_id, NameOf(1), 1)
    /\ UNCHANGED <<bp_meta, bp_index>>
    /\ UNCHANGED OtherThanPath

NextPath == BuildPathCall

InitPathSpec == InitDetect /\ HandlerAtRest /\ InitSched /\ InitPoll /\ InitDb /\ InitPath /\ ListAtRest /\ TwoPollsAtRest /\ PollThreadsAtRest

SpecPath == InitPathSpec /\ [][NextPath]_vars

(***************************************************************************)
(* Specification of the enumeration: any folder graph, then calls of       *)
(* list_all_files, each run step by step through its while loop.  The      *)
(* thread in the loop goes on.                                             *)
(***************************************************************************)
InitList ==
    /\ ls_children \in FolderGraphs
    /\ ls_pc = "idle"
    /\ ls_queue = <<>>
    /\ ls_processed = {}
    /\ ls_all_files = <<>>
    /\ ls_expanded = [f \in ListFolders |-> 0]

\* lines 103-106: the call begins with the root to process
ListAllFilesCall ==
    /\ ls_pc \in {"idle", "returned"}
    /\ ls_pc' = "while"
    /\ ls_queue' = <<RootFolder>>
    /\ ls_processed' = {}
    /\ ls_all_files' = <<>>
    /\ ls_expanded' = [f \in ListFolders |-> 0]
    /\ UNCHANGED ls_children
    /\ UNCHANGED OtherThanList

\* lines 109-113: the folder popped was processed before
ListContinue ==
    /\ ls_pc = "while"
    /\ ls_queue # <<>>
    /\ AlreadyProcessed(Head(ls_queue), ls_processed)
    /\ ls_queue' = Tail(ls_queue)
    /\ UNCHANGED <<ls_children, ls_pc, ls_processed, ls_all_files, ls_expanded>>
    /\ UNCHANGED OtherThanList

\* lines 109-129: the folder popped is listed, its folders are appended to
\* folders_to_process and its files to all_files
ListExpand ==
    /\ ls_pc = "while"
    /\ ls_queue # <<>>
    /\ ~AlreadyProcessed(Head(ls_queue), ls_processed)
    /\ LET current_folder == Head(ls_queue)
           listed == Listing(ls_children, current_folder)
       IN /\ ls_processed' = ls_processed \cup {current_folder}
          /\ ls_expanded' = [ls_expanded EXCEPT ![current_folder] = @ + 1]
          /\ ls_queue' = Tail(ls_queue)
                             \o IdsOfEntries(SelectSeq(listed, IsFolderEntry))
          /\ ls_all_files' = ls_all_files
                                 \o IdsOfEntries(SelectSeq(listed, IsFileEntry))
    /\ UNCHANGED <<ls_children, ls_pc>>
    /\ UNCHANGED OtherThanList

\* lines 108, 131-132: nothing is left to process
ListReturn ==
    /\ ls_pc = "while"
    /\ ls_queue = <<>>
    /\ ls_pc' = "returned"
    /\ UNCHANGED <<ls_children, ls_queue, ls_processed, ls_all_files, ls_expanded>>
    /\ UNCHANGED OtherThanList

ListLoopStep == ListContinue \/ ListExpand \/ ListReturn

NextList == ListAllFilesCall \/ ListContinue \/ ListExpand \/ ListReturn

FairList == WF_vars(ListLoopStep)

InitListSpec == InitDetect /\ HandlerAtRest /\ InitSched /\ InitPoll /\ InitDb /\ PathAtRest /\ InitList /\ TwoPollsAtRest /\ PollThreadsAtRest

SpecList == InitListSpec /\ [][NextList]_vars /\ FairList

(***************************************************************************)
(* Specification of shutdown.  main runs either the scheduler or the       *)
(* legacy polling loop (main.py lines 458-545), so a behaviour is one of   *)
(* the scheduler or one of the polling loop.  Threads that can take a step *)
(* eventually take it, time passes, and a task's function or a detection   *)
(* pass that has begun comes to its end.                                   *)
(***************************************************************************)
SchedulerMode ==
    /\ pl_pc = "unborn"
    /\ \A e \in EventTypes : callbacks[e] = <<>>

LegacyMode == api_calls = 0 /\ clock = 0

\* time passes beyond the seconds the clock counts: a sleep(1) that began in
\* the last second counted returns
TimePassesAtHorizon ==
    /\ clock = MaxClock
    /\ \E l \in LoopThreads :
           /\ lp_pc[l] = "sleep"
           /\ lp_wake[l] > clock
           /\ lp_wake' = [lp_wake EXCEPT ![l] = clock]
    /\ UNCHANGED <<tasks, task_order, running, thread, lock, clock, lp_pc, lp_now,
                   lp_idx, tick_done, CallerVars, api_calls, task_log>>
    /\ UNCHANGED OtherThanSched

NextStop ==
    \/ SchedulerMode /\ ClockTick
    \/ SchedulerMode /\ TimePassesAtHorizon
    \/ SchedulerMode /\ AddTask
    \/ SchedulerMode /\ Start
    \/ SchedulerMode /\ Stop
    \/ SchedulerMode /\ LoopStep
    \/ SchedulerMode /\ RunTaskNowStep
    \/ LegacyMode /\ NextPollingLoop

\* the steps of one loop thread of the scheduler
LoopThread(l) ==
    \/ LoopSample(l)
    \/ LoopAcquire(l)
    \/ LoopSkip(l)
    \/ LoopDispatch(l)
    \/ LoopTaskEnds(l)
    \/ LoopRelease(l)
    \/ LoopWake(l)

\* the steps of a caller that is inside run_task_now
RunTaskNowGoesOn == \E c \in Callers : RunTaskNowEnter(c) \/ RunTaskNowEnds(c)

\* the steps of the thread of _polling_loop
PollingLoopThread ==
    \/ LoopWhile
    \/ DetectReturns
    \/ HandlerInvoked
    \/ LoopPollEnds
    \/ LoopSleepEnds

FairStop ==
    /\ WF_vars(ClockTick)
    /\ WF_vars(TimePassesAtHorizon)
    /\ \A l \in LoopThreads : WF_vars(LoopThread(l))
    /\ WF_vars(RunTaskNowGoesOn)
    /\ WF_vars(PollingLoopThread)

InitStopSpec == InitDetect /\ HandlerAtRest /\ InitSched /\ InitPoll /\ InitDb /\ PathAtRest /\ ListAtRest /\ TwoPollsAtRest /\ PollThreadsAtRest

SpecStop == InitStopSpec /\ [][NextStop]_vars /\ FairStop

(***************************************************************************)
(* Reference reading of a modifiedTime string, used by the properties: the *)
(* instant a well-formed string denotes, in tenths of a second.            *)
(***************************************************************************)
WellFormed(s) == s.kind = "text"
Instant(s) == s.sec * 10 + (IF s.frac = NoFrac THEN 0 ELSE s.frac)

\* C1 as stated: after two consecutive passes over the same enumeration the
\* second pass returned new = [] and modified = [] and every record of the
\* index has status synced.
C1_AllSynced ==
    stable >= 2 =>
        /\ new_files = <<>>
        /\ modified_files = <<>>
        /\ \A id \in DOMAIN files : files[id].status = "synced"

\* C1 amended: after two consecutive passes over the same enumeration the
\* second pass returned new = [] and modified = [], every record whose id
\* the pass enumerated has status synced, and every record whose id it did
\* not enumerate has status deleted.
C1_Idempotent ==
    stable >= 2 =>
        /\ new_files = <<>>
        /\ modified_files = <<>>
        /\ \A id \in DOMAIN files :
               files[id].status = IF id \in DOMAIN seen THEN "synced" ELSE "deleted"

C1_Witness ==
    /\ stable >= 2
    /\ \E id \in DOMAIN seen :
           /\ id \in DOMAIN pre_files
           /\ pre_files[id].status = "new"
           /\ files[id].status = "synced"

\* C2: a remote file without a record is listed as new by exactly one pass,
\* the first one that enumerates it: a pass lists an id as new iff it
\* enumerates it and found no record of it, no id is listed as new by two
\* passes, and a pass that finds the record and the same modifiedTime as the
\* record holds lists the file neither as new nor as modified.
C2_NewOnce ==
    \A id \in FileIds :
        /\ new_count[id] <= 1
        /\ (id \in DOMAIN files) = (new_count[id] = 1)
        /\ passes > 0 =>
              /\ (id \in ListedIds(new_files))
                     = (id \in DOMAIN seen /\ id \notin DOMAIN pre_files)
              /\ (/\ id \in DOMAIN pre_files
                  /\ id \in DOMAIN seen
                  /\ seen[id] = pre_files[id].modified_time)
                 => /\ id \notin ListedIds(new_files)
                    /\ id \notin ListedIds(modified_files)

C2_Witness ==
    \E id \in DOMAIN seen :
        /\ new_count[id] = 1
        /\ id \in DOMAIN pre_files
        /\ seen[id] = pre_files[id].modified_time
        /\ id \notin ListedIds(new_files)

\* C3: a pass lists a tracked, enumerated file as modified iff both the
\* remote and the persisted modifiedTime are well formed (in any of the four
\* encodings) and the remote instant is strictly later; only tracked files
\* are listed as modified; and the pass after an unchanged enumeration lists
\* nothing as modified.
C3_ModifiedIffNewer ==
    passes > 0 =>
        /\ ListedIds(modified_files) \subseteq DOMAIN pre_files \cap DOMAIN seen
        /\ \A id \in DOMAIN pre_files \cap DOMAIN seen :
               (id \in ListedIds(modified_files))
                   = (/\ WellFormed(seen[id])
                      /\ WellFormed(pre_files[id].modified_time)
                      /\ Instant(seen[id]) > Instant(pre_files[id].modified_time))
        /\ stable >= 2 => modified_files = <<>>

\* a file reported modified across two different encodings
C3_Witness ==
    \E id \in ListedIds(modified_files) :
        /\ seen[id].z # pre_files[id].modified_time.z
        /\ (seen[id].frac = NoFrac) # (pre_files[id].modified_time.frac = NoFrac)

\* C4: a file with a record that the pass did not enumerate is in the pass's
\* deleted list, and get(id) still returns its record, with status deleted.
C4_DeletedKept ==
    passes > 0 =>
        \A id \in DOMAIN pre_files \ DOMAIN seen :
            /\ id \in ListedIds(deleted_files)
            /\ get_file(files, id) # <<>>
            /\ get_file(files, id)[1].status = "deleted"

C4_Witness ==
    \E id \in DOMAIN pre_files \ DOMAIN seen :
        /\ pre_files[id].status = "synced"
        /\ id \in ListedIds(deleted_files)

(***************************************************************************)
(* Properties of execute_with_retry().  ex_trace lists the attempts and    *)
(* sleeps of the call that is running or has just returned.                *)
(***************************************************************************)
InCall == ex_pc \in {"try", "sleep", "returned"}
AttemptIndexes == {i \in 1..Len(ex_trace) : ex_trace[i].kind = "attempt"}
AllAttemptsFailed == \A i \in AttemptIndexes : ~ex_trace[i].ok
Exhausted == ex_pc = "returned" /\ AllAttemptsFailed

\* C5: a call never makes more than max_retries + 1 attempts; a call all of
\* whose attempts failed has, when it returns, made exactly max_retries + 1
\* attempts with one sleep of retry_delay_seconds between consecutive
\* attempts (none after the last), and returns (false, none, the last
\* exception raised).
C5_Exhaustion ==
    InCall =>
        /\ Cardinality(AttemptIndexes) <= max_retries + 1
        /\ Exhausted =>
              /\ Cardinality(AttemptIndexes) = max_retries + 1
              /\ Len(ex_trace) = 2 * max_retries + 1
              /\ \A i \in 1..Len(ex_trace) :
                     IF i % 2 = 1
                     THEN ex_trace[i].kind = "attempt"
                     ELSE ex_trace[i] = Sleep(retry_delay_seconds)
              /\ ex_ret = ReturnValue(FALSE, None, ex_trace[Len(ex_trace)].value)

C5_Witness ==
    /\ Exhausted
    /\ max_retries = 2
    /\ ex_trace[1].value # ex_trace[Len(ex_trace)].value

\* C6: a call that exhausted its attempts leaves error_count[name] exactly 1
\* higher than it was before the call, and last_error[name] is the last
\* exception raised.
C6_OnePerCycle ==
    Exhausted =>
        /\ ErrorCount(error_counts, op_name) = count_before + 1
        /\ op_name \in DOMAIN last_errors
        /\ last_errors[op_name] = ex_trace[Len(ex_trace)].value

\* C7: an attempt that succeeds is the last attempt of its call; the call
\* has then returned (true, the attempt's result, none) and the error count
\* of the operation is 0.  A call returns success only after such an attempt.
C7_SuccessStops ==
    InCall =>
        /\ \A i \in AttemptIndexes :
               ex_trace[i].ok =>
                   /\ i = Len(ex_trace)
                   /\ ex_pc = "returned"
                   /\ ex_ret = ReturnValue(TRUE, ex_trace[i].value, None)
                   /\ ErrorCount(error_counts, op_name) = 0
        /\ (ex_pc = "returned" /\ ex_ret.success) =>
               /\ ex_trace # <<>>
               /\ ex_trace[Len(ex_trace)].ok

\* a retry succeeds after failed attempts, for an operation with earlier failures
C7_Witness ==
    /\ ex_pc = "returned"
    /\ ex_ret.success
    /\ Len(ex_trace) >= 3
    /\ count_before > 0
    /\ op_name \in DOMAIN error_counts

\* the ids of the tasks a loop thread has dispatched in its current tick
DispatchedInTick(l) == {tick_done[l][i] : i \in 1..Len(tick_done[l])}

\* C8: while a loop tick holds the lock, every task it has dispatched in
\* this tick has next_run = the `now` sampled at the start of the tick plus
\* the task's interval, however long the task took.
C8_NextRunFromTickNow ==
    \A l \in LoopThreads :
        lock = l =>
            \A id \in DispatchedInTick(l) :
                /\ id \in DOMAIN tasks
                /\ tasks[id].next_run = lp_now[l] + tasks[id].interval

\* a tick has dispatched a task whose execution took time
C8_Witness ==
    \E l \in LoopThreads :
        /\ lock = l
        /\ tick_done[l] # <<>>
        /\ clock > lp_now[l]

\* C9: (a) a task as add_task left it has next_run = the time of the add, so
\* a tick whose `now` is not before the add finds it due; (b) a tick
\* dispatches a task at most once; (c) with an unchanged interval N, a
\* dispatch by the tick of time t is not followed by a dispatch at a tick of
\* a time before t + N.
C9_DueAtFirstTickOncePerTick ==
    /\ \A id \in DOMAIN tasks :
           task_log[id].fresh =>
               /\ tasks[id].next_run = task_log[id].added_at
               /\ \A l \in LoopThreads :
                      lp_pc[l] = "scan" /\ lp_now[l] >= task_log[id].added_at
                          => IsDue(lp_now[l], tasks[id])
    /\ \A l \in LoopThreads :
           /\ \A i, j \in 1..Len(tick_done[l]) :
                  i # j => tick_done[l][i] # tick_done[l][j]
           /\ lp_pc[l] = "run" => task_order[lp_idx[l]] \notin DispatchedInTick(l)
    /\ \A id \in TaskIds :
           Len(task_log[id].fired) = 2 /\ ~task_log[id].updated =>
               task_log[id].fired[2][1] >=
                   task_log[id].fired[1][1] + task_log[id].fired[1][2]

\* a task was dispatched at the tick of its add time and again exactly one
\* interval later
C9_Witness ==
    \E id \in DOMAIN tasks :
        /\ Len(task_log[id].fired) = 2
        /\ ~task_log[id].updated
        /\ task_log[id].fired[1][1] = task_log[id].added_at
        /\ task_log[id].fired[2][1] =
               task_log[id].fired[1][1] + task_log[id].fired[1][2]

\* C10: at no moment are two threads inside a task's function: the loop
\* thread and the callers of run_task_now exclude each other.
C10_OneTaskAtATime == Cardinality(Executing) <= 1

\* run_task_now is executing a task while the loop thread waits for the lock
C10_Witness ==
    /\ \E c \in Callers : c_pc[c] = "run" /\ lock = c
    /\ \E l \in LoopThreads : lp_pc[l] = "lock"

\* the task a loop thread is at in its iteration
TaskAt(l) == task_order[lp_idx[l]]

\* a loop thread holds the lock exactly while it iterates, and has passed
\* no task that its `now` finds due
C11_TickState ==
    \A l \in LoopThreads :
        /\ lock = l => lp_pc[l] \in {"scan", "run"}
        /\ lock = l =>
               \A i \in 1..Len(task_order) :
                   i < lp_idx[l] => ~IsDue(lp_now[l], tasks[task_order[i]])

\* the end of a task's function, whether it returned or raised, leaves the
\* loop thread in its iteration at the next task with the lock held, and
\* changes nothing of any other task nor the interval of this one; a task is
\* passed without being run only if it is not due; a loop thread ends only
\* at its `while` when running is false
C11_TickStep ==
    \A l \in LoopThreads :
        /\ (lp_pc[l] = "run" /\ lp_pc'[l] # "run") =>
               /\ lp_pc'[l] = "scan"
               /\ lp_idx'[l] = lp_idx[l] + 1
               /\ lock' = l
               /\ task_order' = task_order
               /\ DOMAIN tasks' = DOMAIN tasks
               /\ \A id \in DOMAIN tasks \ {TaskAt(l)} : tasks'[id] = tasks[id]
               /\ tasks'[TaskAt(l)].interval = tasks[TaskAt(l)].interval
        /\ (lp_pc[l] = "scan" /\ lp_pc'[l] = "scan" /\ lp_idx'[l] # lp_idx[l]) =>
               ~IsDue(lp_now[l], tasks[TaskAt(l)])
        /\ (lp_pc[l] # "ended" /\ lp_pc'[l] = "ended") =>
               lp_pc[l] = "while" /\ ~running

\* C11: an exception of a task's function is caught inside the scheduler:
\* the loop thread goes on with its iteration, runs every later task of the
\* tick that is due, and the failure changes neither the interval nor the
\* next_run of any other task.
C11_FailureIsolated == []C11_TickState /\ [][C11_TickStep]_vars

\* in one tick a task raised on its first run and the next task was then run
\* to its end
C11_Witness ==
    \E l \in LoopThreads :
        /\ lock = l
        /\ Len(tick_done[l]) = 2
        /\ tasks[tick_done[l][1]].last_run = NeverRun
        /\ tasks[tick_done[l][2]].last_run # NeverRun

\* a step of run_task_now: it starts to run the task only for a registered
\* id, whatever its next_run, and changes no task by that; the end of the
\* task's function sets next_run to the time of that moment plus the
\* interval, changes no other task, releases the lock and returns True; for
\* an unknown id it changes no task, runs nothing and returns False; the
\* task's function is entered only from the wait for the lock
C12_RunNowStep ==
    \A c \in Callers :
        /\ (c_pc[c] # "run" /\ c_pc'[c] = "run") =>
               /\ c_pc[c] = "lock"
               /\ c_task[c] \in DOMAIN tasks
               /\ tasks' = tasks
               /\ c_ret'[c] = NotReturned
        /\ (c_pc[c] = "run" /\ c_pc'[c] # "run") =>
               /\ c_pc'[c] = "idle"
               /\ c_ret'[c] = ReturnedTrue
               /\ lock' = NoThread
               /\ DOMAIN tasks' = DOMAIN tasks
               /\ tasks'[c_task[c]].next_run = clock + tasks[c_task[c]].interval
               /\ tasks'[c_task[c]].interval = tasks[c_task[c]].interval
               /\ \A id \in DOMAIN tasks \ {c_task[c]} : tasks'[id] = tasks[id]
        /\ (c_pc[c] = "lock" /\ c_pc'[c] = "idle") =>
               /\ c_task[c] \notin DOMAIN tasks
               /\ tasks' = tasks
               /\ Executing' = Executing
               /\ c_ret'[c] = ReturnedFalse

\* a call that has returned True has released the lock; a call returns only
\* by one of the two ways above
C12_RunNowState ==
    \A c \in Callers :
        /\ c_ret[c] # NotReturned => c_pc[c] = "idle" /\ lock # c
        /\ c_pc[c] = "run" => lock = c /\ c_task[c] \in DOMAIN tasks

\* C12: run_task_now(id) for a registered id runs the task's function once,
\* whatever its next_run, then sets next_run to the time after the run plus
\* the interval and returns True; for an unknown id it runs nothing, changes
\* no task and returns False.
C12_RunNow == []C12_RunNowState /\ [][C12_RunNowStep]_vars

\* run_task_now is running a task that is not due
C12_Witness ==
    \E c \in Callers :
        /\ c_pc[c] = "run"
        /\ tasks[c_task[c]].next_run > clock

(***************************************************************************)
(* Properties of poll_now().  poll_trace lists the handler invocations of  *)
(* the poll that is running or has just returned.                          *)
(***************************************************************************)
\* the place of an event type in the order the claims state
ClaimedRank(event) ==
    CASE event = "new_file" -> 1
      [] event = "modified_file" -> 2
      [] event = "deleted_file" -> 3
      [] event = "poll_complete" -> 4

\* how often the poll invoked the handler at place h of `event` on `file`
TimesInvoked(event, file, h) ==
    Cardinality({i \in 1..Len(poll_trace) :
                    poll_trace[i] = [event |-> event, file |-> file, at |-> h]})

\* a poll_now() whose detection pass returned has returned
PollNowReturned ==
    poll_pc = "idle" /\ poll_ret.kind = "return" /\ detect_exc = NoException

\* every registered handler of `event` was invoked once for every file of
\* `list`
OncePerFile(event, list) ==
    \A f \in 1..Len(list), h \in 1..Len(callbacks[event]) :
        TimesInvoked(event, list[f], h) = 1

\* C13: the invocations of a poll are in the order new_file, modified_file,
\* deleted_file, poll_complete; when poll_now() has returned, every handler
\* of a file event was invoked exactly once for every file of its list,
\* every poll_complete handler exactly once, nothing else was invoked, and
\* the value returned is the three lists of the detection pass.
C13_DispatchOrder ==
    /\ \A i, j \in 1..Len(poll_trace) :
           i < j => ClaimedRank(poll_trace[i].event) <= ClaimedRank(poll_trace[j].event)
    /\ PollNowReturned =>
           /\ OncePerFile("new_file", poll_lists[1])
           /\ OncePerFile("modified_file", poll_lists[2])
           /\ OncePerFile("deleted_file", poll_lists[3])
           /\ \A h \in 1..Len(callbacks["poll_complete"]) :
                  TimesInvoked("poll_complete", 0, h) = 1
           /\ Len(poll_trace) =
                  Len(poll_lists[1]) * Len(callbacks["new_file"])
                  + Len(poll_lists[2]) * Len(callbacks["modified_file"])
                  + Len(poll_lists[3]) * Len(callbacks["deleted_file"])
                  + Len(callbacks["poll_complete"])
           /\ poll_ret = Returns(poll_lists)

\* a poll that invoked a new_file handler on two files and then a
\* poll_complete handler has returned
C13_Witness ==
    /\ PollNowReturned
    /\ Len(poll_lists[1]) = 2
    /\ Len(poll_trace) = 3
    /\ poll_trace[1].event = "new_file"
    /\ poll_trace[3].event = "poll_complete"

\* the invocations that the poll owes: every handler of every file event
\* once for every file of its list, every poll_complete handler once
AllInvoked ==
    /\ OncePerFile("new_file", poll_lists[1])
    /\ OncePerFile("modified_file", poll_lists[2])
    /\ OncePerFile("deleted_file", poll_lists[3])
    /\ \A h \in 1..Len(callbacks["poll_complete"]) :
           TimesInvoked("poll_complete", 0, h) = 1

\* C14: when a handler invocation has raised, the poll goes on: it is still
\* dispatching or it has returned, and when it has returned every handler
\* was invoked for every file of every list, the poll_complete handlers
\* included, and poll_now() returned the three lists of the detection pass.
C14_HandlerFailureIsolated ==
    raised_at > 0 =>
        /\ poll_pc = "dispatch" \/ PollNowReturned
        /\ PollNowReturned =>
               /\ AllInvoked
               /\ poll_ret = Returns(poll_lists)
               /\ poll_lists # EmptyLists \/ poll_trace[raised_at].event = "poll_complete"

\* the first invocation of a poll raised, on the first of two new files; the
\* poll went on to the second file and to poll_complete, and returned
C14_Witness ==
    /\ PollNowReturned
    /\ raised_at = 1
    /\ Len(poll_trace) = 3
    /\ poll_trace[1].event = "new_file"
    /\ poll_trace[2].file # poll_trace[1].file
    /\ poll_trace[3].event = "poll_complete"

\* an error the claims call transient: its message contains 'SSL' or
\* 'socket', or 'connection' in any case
ClaimedTransient(message) ==
    \E i \in 1..Len(message) :
        message[i] \in {"SSL", "socket", "connection", "Connection", "CONNECTION"}

\* the detection pass of a poll_now() has raised this message and the call
\* is over
PollNowFailedWith(message) ==
    poll_pc = "idle" /\ poll_by = "nobody" /\ detect_exc = message

\* C15: when the detection pass of poll_now() raised a transient error,
\* poll_now() returned three empty lists and invoked no handler.
C15_TransientReturnsEmpty ==
    \A message \in Messages :
        (PollNowFailedWith(message) /\ ClaimedTransient(message)) =>
            /\ poll_ret = Returns(EmptyLists)
            /\ poll_trace = <<>>

\* a poll with a poll_complete handler registered met a connection error
C15_Witness ==
    /\ PollNowFailedWith(<<"Connection">>)
    /\ callbacks["poll_complete"] # <<>>
    /\ poll_ret.kind = "return"

\* C16: when the detection pass of poll_now() raised an error that is not
\* transient, poll_now() raised that error.
C16_OtherErrorsPropagate ==
    \A message \in Messages :
        (PollNowFailedWith(message) /\ ~ClaimedTransient(message)) =>
            poll_ret = Raises(message)

\* C17: when the call of execute_with_retry for poll_for_changes is over and
\* the detection pass of its last poll failed with a transient error, the
\* call has made max_retries + 1 attempts and the failure is in the error
\* statistics of poll_for_changes.
C17_TransientPollRetried ==
    (/\ ex_pc = "returned"
     /\ op_name = "poll_for_changes"
     /\ detect_exc # NoException
     /\ ClaimedTransient(detect_exc)) =>
        /\ Cardinality(AttemptIndexes) = max_retries + 1
        /\ ErrorCount(error_counts, "poll_for_changes") > 0
        /\ "poll_for_changes" \in DOMAIN get_error_stats(error_counts, last_errors)

\* the thread of the legacy loop has ended only with the running flag false
C18_LoopState == pl_pc = "ended" => ~p_running

\* a loop thread of the scheduler ends only at its `while` with running
\* false and leaves a task's function only into its iteration; the legacy
\* loop ends only at its `while` with running false, leaves a poll only into
\* one of its sleeps, a sleep only to its `while`, and its `while` with
\* running true only into a poll
C18_LoopStep ==
    /\ \A l \in LoopThreads :
           /\ (lp_pc[l] # "ended" /\ lp_pc'[l] = "ended") =>
                  lp_pc[l] = "while" /\ ~running
           /\ (lp_pc[l] = "run" /\ lp_pc'[l] # "run") => lp_pc'[l] = "scan"
    /\ (pl_pc # "ended" /\ pl_pc' = "ended") => pl_pc = "while" /\ ~p_running
    /\ (pl_pc = "poll" /\ pl_pc' # "poll") => pl_pc' \in {"sleep", "error_sleep"}
    /\ (pl_pc \in {"sleep", "error_sleep"} /\ pl_pc' # pl_pc) => pl_pc' = "while"
    /\ (pl_pc = "while" /\ p_running /\ pl_pc' # "while") => pl_pc' = "poll"
    /\ (pl_pc = "poll" /\ raised_at' # raised_at) => pl_pc' = "poll"

ReturnedFailureValue(t) ==
    /\ db_ret[t].kind = "return"
    /\ CASE db_call[t].op \in {"upsert_file", "add_sync_history",
                               "update_file_status", "delete_file"} ->
                db_ret[t].result.type = "bool" /\ db_ret[t].result.value = FALSE
         [] db_call[t].op = "get_file" -> db_ret[t].result.type = "NoneType"
         [] OTHER ->
                db_ret[t].result.type = "list" /\ db_ret[t].result.value = <<>>

\* C19: a DatabaseManager operation whose call hit a storage exception (a
\* sqlite3.Error) has returned its failure value: False for the writes, None
\* for get_file, an empty list for the list reads; it has raised nothing.
C19_StorageErrorsContained ==
    \A t \in DbThreads :
        (/\ db_pc[t] = "idle"
         /\ db_error[t] \in {"OperationalError", "IntegrityError"}) =>
            ReturnedFailureValue(t)

\* an upsert_file whose commit failed has returned, its transaction open
C19_Witness ==
    \E t \in DbThreads :
        /\ db_pc[t] = "idle"
        /\ db_call[t].op = "upsert_file"
        /\ db_error[t] = "OperationalError"
        /\ db_dirty.owner = t
        /\ db_dirty.store.files # <<>>

OneRecordPerId(rows) ==
    \A i, j \in 1..Len(rows) : rows[i].id = rows[j].id => i = j

InWriteBody(t) == db_pc[t] \in {"connect", "select", "execute", "commit"}

\* the tables hold one row per id at most, committed or not; one thread at
\* a time is inside the body of a write operation; what an upsert's
\* existence check found is still so when its INSERT or UPDATE executes
C20_State ==
    /\ OneRecordPerId(db_store.files)
    /\ OneRecordPerId(db_dirty.store.files)
    /\ \A t, u \in DbThreads : InWriteBody(t) /\ InWriteBody(u) => t = u
    /\ \A t \in DbThreads :
           (db_pc[t] = "execute" /\ db_call[t].op = "upsert_file") =>
               db_exists[t] = (db_call[t].file_id
                                  \in IdsOf(View(db_store, db_dirty, t).files))

\* while a thread is inside the body of a write operation no step of another
\* thread changes the tables; an upsert that inserts with no status given
\* leaves one row of its id, of status new
C20_Step ==
    \A t \in DbThreads :
        /\ (InWriteBody(t) /\ db_pc'[t] = db_pc[t]) =>
               UNCHANGED <<db_store, db_dirty>>
        /\ (/\ db_pc[t] = "execute"
            /\ db_pc'[t] = "commit"
            /\ db_call[t].op = "upsert_file"
            /\ ~db_exists[t]
            /\ db_call[t].status = "") =>
               \E i \in 1..Len(db_dirty'.store.files) :
                   /\ db_dirty'.store.files[i].id = db_call[t].file_id
                   /\ db_dirty'.store.files[i].columns.status = "new"

\* C20: under every interleaving of write calls of several threads the
\* index holds at most one record per id: the existence check of an upsert
\* and its insert or update are atomic with respect to every other write
\* operation, and an upsert that inserts with no status stores status new.
C20_WritesAtomic == []C20_State /\ [][C20_Step]_vars

\* two threads upsert the same absent id at once: one has inserted and is
\* about to commit, the other waits for the lock
C20_Witness ==
    \E t, u \in DbThreads :
        /\ t # u
        /\ db_call[t].op = "upsert_file"
        /\ db_call[u].op = "upsert_file"
        /\ db_call[t].file_id = db_call[u].file_id
        /\ db_pc[t] = "commit"
        /\ ~db_exists[t]
        /\ db_pc[u] = "lock"

\* the history entries a step appended
Appended == SubSeq(sync_history', Len(sync_history) + 1, Len(sync_history'))

\* the number of entries of `entries` for file id with `action`
EntriesOf(entries, id, action) ==
    Cardinality({k \in 1..Len(entries) :
                    entries[k].file_id = id /\ entries[k].action = action})

Occurrences(list, id) == Cardinality({i \in 1..Len(list) : list[i].id = id})

\* every step keeps the entries the history has, in their order; a pass
\* appends one entry per file of its new, modified and deleted lists, with
\* that action, and nothing else
C21_Step ==
    /\ Len(sync_history') >= Len(sync_history)
    /\ SubSeq(sync_history', 1, Len(sync_history)) = sync_history
    /\ passes' = passes => sync_history' = sync_history
    /\ passes' # passes =>
           /\ Len(Appended) = Len(new_files') + Len(modified_files')
                                 + Len(deleted_files')
           /\ \A id \in FileIds :
                  /\ EntriesOf(Appended, id, "new") = Occurrences(new_files', id)
                  /\ EntriesOf(Appended, id, "modified")
                         = Occurrences(modified_files', id)
                  /\ EntriesOf(Appended, id, "deleted")
                         = Occurrences(deleted_files', id)
                  /\ (id \in DOMAIN files' /\ files'[id].status = "synced") =>
                         \A k \in 1..Len(Appended) : Appended[k].file_id # id

\* C21: over any sequence of detection passes the sync history is
\* append-only, and each pass appends exactly one entry per file it places
\* in new, modified or deleted, with that action, and none for a file it
\* classifies synced.
C21_HistoryAppendOnly == [][C21_Step]_vars

\* a pass found one file new and left another synced, after an earlier entry
C21_Witness ==
    /\ passes >= 2
    /\ Len(sync_history) >= 2
    /\ new_files # <<>>
    /\ \E id \in DOMAIN files : files[id].status = "synced"

\* no step removes an id from the index
C22_Step == DOMAIN files \subseteq DOMAIN files'

\* after a pass, a record whose id the pass did not enumerate is there with
\* status deleted, and get_all_files() has one row per id
C22_State ==
    passes > 0 =>
        /\ \A id \in DOMAIN pre_files : id \in DOMAIN files
        /\ \A id \in DOMAIN files \ DOMAIN seen :
               /\ get_file(files, id) # <<>>
               /\ get_file(files, id)[1].status = "deleted"
        /\ Cardinality(DOMAIN get_all_files(files)) = Cardinality({id \in FileIds : new_count[id] > 0})

\* C22: detect_changes never removes a record: over any sequence of passes
\* the set of ids in the index only grows, and an id that has disappeared
\* from the remote tree keeps its row, with status deleted.
C22_NeverRemoved == []C22_State /\ [][C22_Step]_vars

\* a record deleted by an earlier pass is still there after a later one
C22_Witness ==
    \E id \in DOMAIN files \ DOMAIN seen :
        /\ id \in DOMAIN pre_files
        /\ pre_files[id].status = "deleted"
        /\ files[id].status = "deleted"

\* C23: an error of the listing of the remote tree during detect_changes
\* reaches the caller, so a pass never classifies against a failed (empty
\* or partial) enumeration: the enumeration a pass classifies against is
\* the whole remote tree.
C23_EnumerationComplete == [][passes' # passes => seen' = drive]_vars

\* C24: build_file_path returns a path and raises nothing, whatever the
\* parent chain: a parent that is the tracked root, one with a path in the
\* index, one known through remote metadata only, a dangling one, and a
\* chain that revisits a folder.
C24_PathResolved == ~bp_ret.raised

LoopThreadGone(l) == lp_pc[l] \in {"unborn", "ended"}
PollingThreadGone == pl_pc \in {"unborn", "ended"}

\* the step in which stop() clears the running flag moves no thread and
\* touches neither the lock nor a task nor the poll in progress
C25_StopStep ==
    /\ (running /\ ~running') =>
           /\ lp_pc' = lp_pc
           /\ c_pc' = c_pc
           /\ lock' = lock
           /\ tasks' = tasks
    /\ (p_running /\ ~p_running') =>
           /\ pl_pc' = pl_pc
           /\ poll_pc' = poll_pc
           /\ poll_pos' = poll_pos

\* C25: once stop() has cleared the running flag, each loop thread of the
\* scheduler, and the thread of the legacy polling loop, has eventually
\* exited unless a later start() sets the flag again; stop() is one step
\* that interrupts nothing that is executing.
C25_StopEnds ==
    /\ \A l \in LoopThreads : (~running) ~> (running \/ LoopThreadGone(l))
    /\ (~p_running) ~> (p_running \/ PollingThreadGone)
    /\ [][C25_StopStep]_vars

\* the scheduler is stopped, and a loop thread that ran a task has exited
C25_Witness ==
    /\ ~running
    /\ \E l \in LoopThreads : lp_pc[l] = "ended"
    /\ \E id \in DOMAIN tasks : tasks[id].last_run # NeverRun

\* the lists in which a pass placed the id
InNew(id) == id \in ListedIds(new_files)
InModified(id) == id \in ListedIds(modified_files)
InDeleted(id) == id \in ListedIds(deleted_files)
LeftSynced(id) ==
    /\ ~InNew(id)
    /\ ~InModified(id)
    /\ id \in DOMAIN files
    /\ files[id].status = "synced"

\* C26: a pass classifies each distinct id it enumerated into exactly one
\* of new, modified and synced; its new, modified and deleted lists are
\* pairwise disjoint by id; and no id is twice in a list, also when the
\* enumeration held the file more than once.
C26_ClassifiedOnce ==
    passes > 0 =>
        /\ \A id \in DOMAIN seen :
               /\ InNew(id) \/ InModified(id) \/ LeftSynced(id)
               /\ ~(InNew(id) /\ InModified(id))
               /\ InNew(id) => files[id].status = "new"
               /\ InModified(id) => files[id].status = "modified"
        /\ \A id \in FileIds :
               /\ ~(InNew(id) /\ InDeleted(id))
               /\ ~(InModified(id) /\ InDeleted(id))
               /\ Occurrences(new_files, id) <= 1
               /\ Occurrences(modified_files, id) <= 1
               /\ Occurrences(deleted_files, id) <= 1

\* the enumeration of a pass held a new file twice and another file once
C26_Witness ==
    \E id \in repeated :
        /\ InNew(id)
        /\ Occurrences(new_files, id) = 1
        /\ DOMAIN seen # repeated

\* a modifiedTime that is missing or in none of the four formats
Unreadable(s) == s.kind \in {"missing", "garbage"}

\* C27: a tracked file whose remote modifiedTime, or whose persisted
\* modified_time, is missing or matches none of the four formats is not
\* placed in modified by the pass: it is left with status synced.
C27_UnreadableIsSynced ==
    passes > 0 =>
        \A id \in DOMAIN pre_files \cap DOMAIN seen :
            (Unreadable(seen[id]) \/ Unreadable(pre_files[id].modified_time)) =>
                /\ id \notin ListedIds(modified_files)
                /\ id \notin ListedIds(new_files)
                /\ files[id].status = "synced"

\* a tracked file with a readable persisted time came back with a string in
\* none of the formats
C27_Witness ==
    \E id \in DOMAIN pre_files \cap DOMAIN seen :
        /\ seen[id].kind = "garbage"
        /\ pre_files[id].modified_time.kind = "text"
        /\ files[id].status = "synced"

\* C28: a tracked file the pass classified synced keeps, in its record, the
\* modified_time and the path it had before the pass.
C28_SyncedKeepsRecord ==
    passes > 0 =>
        \A id \in DOMAIN pre_files \cap DOMAIN seen :
            ~InModified(id) =>
                /\ files[id].modified_time = pre_files[id].modified_time
                /\ files[id].path = pre_files[id].path

\* folders a walk from the root along the listings can arrive at
RECURSIVE ReachableFrom(_, _)
ReachableFrom(children, found) ==
    LET more == found \cup UNION {children[f] : f \in found}
    IN IF more = found THEN found ELSE ReachableFrom(children, more)

\* no folder is listed a second time in a call, and what was listed is
\* within reach of the root
C29_State ==
    /\ \A f \in ListFolders : ls_expanded[f] <= 1
    /\ ls_pc = "returned" =>
           /\ ls_processed = ReachableFrom(ls_children, {RootFolder})
           /\ \A f \in ls_processed : ls_expanded[f] = 1

\* C29: list_all_files comes to its return for every folder graph, also one
\* in which a folder is listed in several folders or lies on a cycle, and
\* lists no folder more than once in a call.
C29_EnumerationTerminates ==
    /\ []C29_State
    /\ (ls_pc = "while") ~> (ls_pc = "returned")

\* a call returned from a tree in which folder 2 is listed in two folders
\* and the root is listed in folder 2
C29_Witness ==
    /\ ls_pc = "returned"
    /\ ls_children[RootFolder] = {1, 2}
    /\ 2 \in ls_children[1]
    /\ RootFolder \in ls_children[2]
    /\ \A f \in ListFolders : ls_expanded[f] = 1

\* what get_error_stats() returns now, and after the step
StatsNow == get_error_stats(error_counts, last_errors)
StatsNext == get_error_stats(error_counts', last_errors')

\* the statistics after a reset of one operation: the operation, when it
\* was tracked, has count 0 and no last error, and every other operation
\* has what it had
ResetOneEffect(name) ==
    /\ DOMAIN StatsNext = DOMAIN StatsNow
    /\ name \in DOMAIN StatsNow =>
           /\ StatsNext[name] = [count |-> 0, last_error |-> None]
           /\ name \notin DOMAIN last_errors'
    /\ \A other \in DOMAIN StatsNow \ {name} :
           /\ StatsNext[other] = StatsNow[other]
           /\ other \in DOMAIN last_errors <=> other \in DOMAIN last_errors'

\* the statistics after a reset of all operations
ResetAllEffect ==
    /\ StatsNext = EmptyMap
    /\ last_errors' = EmptyMap

C30_Step ==
    /\ \A name \in OpNames : ResetCall(name) => ResetOneEffect(name)
    /\ \A operation_name \in {None, ""} :
           ResetCall(operation_name) => ResetAllEffect

\* C30: reset_error_stats(name) puts the count of name at 0 and drops its
\* last error, leaving the statistics of every other operation as they
\* were; reset_error_stats() leaves no tracked operation, so
\* get_error_stats() is then empty.
C30_ResetFrame == [][C30_Step]_vars

\* one operation was reset while both had failed: it has count 0 and no last
\* error, the other still has its count and its last error
C30_Witness ==
    /\ ex_pc = "idle"
    /\ \E name \in DOMAIN error_counts :
           /\ error_counts[name] = 0
           /\ name \notin DOMAIN last_errors
           /\ \E other \in DOMAIN error_counts \ {name} :
                  /\ error_counts[other] > 0
                  /\ other \in DOMAIN last_errors

\* the number of threads whose poll has the property
PollsWith(P(_)) == Cardinality({t \in PollThreads : P(t)})

\* the 'new' entries for a file that the history got since the polls began
NewEntriesSince(id) ==
    Cardinality({i \in (cp_before.hist_len + 1)..Len(sync_history) :
                    /\ sync_history[i].file_id = id
                    /\ sync_history[i].action = "new"})

\* C31: when the initial poll and the first tick have both run their pass
\* against the same index, each remote file that had no record is in the
\* new list of exactly one of them, was handed to the new_file callbacks by
\* exactly one of them, and got exactly one 'new' entry in the history.
C31_NewReportedOnce ==
    (\A t \in PollThreads : cp_pc[t] = "done") =>
        \A id \in DOMAIN drive \ DOMAIN cp_before.files :
            LET InNewOf(t) == id \in ListedIds(cp_lists[t].new)
                TriggeredBy(t) == \E i \in 1..Len(cp_triggered[t]) :
                                      cp_triggered[t][i] = id
            IN /\ PollsWith(InNewOf) = 1
               /\ PollsWith(TriggeredBy) = 1
               /\ NewEntriesSince(id) = 1

\* get_all_task_statuses of caller c has returned and left the lock
StatusesReturned(c) ==
    /\ c_pc[c] = "idle"
    /\ c_ret[c] = ReturnedStatuses
    /\ lock # c

\* the step in which it returns hands out one status per registered task
C32_Step ==
    \A c \in Callers :
        (c_pc[c] = "all_iter" /\ c_pc'[c] = "idle") =>
            /\ DOMAIN c_all'[c].statuses = DOMAIN tasks
            /\ \A id \in DOMAIN tasks :
                   c_all'[c].statuses[id] = get_task_status(tasks, id)
            /\ lock' = NoThread

\* C32: a call of get_all_task_statuses() comes to its return whatever
\* tasks are registered, with one status per registered task and with the
\* scheduler lock left free.
C32_StatusesTerminate ==
    /\ [][C32_Step]_vars
    /\ \A c \in Callers : (c_pc[c] = "all_lock") ~> StatusesReturned(c)

\* the loop threads that are in an iteration of `while self.running:`
Ticking == {l \in LoopThreads : lp_pc[l] \in {"lock", "scan", "run", "sleep"}}

\* C33: whatever start() and stop() calls were made, one after the other,
\* at most one loop thread of the scheduler is in an iteration of its loop.
C33_OneLoopThread == Cardinality(Ticking) <= 1

\* the polling threads that are in a detection pass
InPass == {l \in PollingThreads : pt_pc[l] = "pass"}

C34_State == Cardinality(InPass) <= 1

\* a start() while running and a stop() while not running return False,
\* and such a start() creates no thread
C34_Step ==
    /\ (PollingStartCall /\ p_running) =>
           pt_ret' = ReturnedFalse /\ pt_pc' = pt_pc
    /\ (PollingStopBegins /\ ~p_running) => pt_ret' = ReturnedFalse

\* C34: whatever start() and stop() calls were made on the polling system,
\* one after the other, at most one polling thread is in a detection pass;
\* start() while running returns False and creates no thread, stop() while
\* not running returns False.
C34_OnePollingThread == []C34_State /\ [][C34_Step]_vars

\* the history has an entry of this action for the file
HasEntry(id, action) ==
    \E i \in 1..Len(sync_history) :
        sync_history[i].file_id = id /\ sync_history[i].action = action

\* C35: a file whose upsert returned False in a pass that classified it new
\* or modified is in that pass's list and has the history entry, and the
\* next pass, over the same enumeration, has it in the same list again.
C35_ReportedAgain ==
    /\ \A id \in fault_log.failed :
           /\ InNew(id) => HasEntry(id, "new")
           /\ InModified(id) => HasEntry(id, "modified")
    /\ stable >= 2 =>
           /\ \A id \in fault_log.prev_new : InNew(id)
           /\ \A id \in fault_log.prev_mod : InModified(id)

\* what C36 says of the last pass: a file in `new` had no record when the
\* pass began, and every record whose id the enumeration lacked is in `deleted`
NewAndDeletedFollowIndex ==
    /\ \A id \in ListedIds(new_files) : id \notin DOMAIN pre_files
    /\ \A id \in DOMAIN pre_files \ DOMAIN seen : InDeleted(id)

\* C36: a pass places a file in `new` only if the index has no record of its
\* id, and places in `deleted` every id that has a record and that the
\* enumeration lacks, also when the pass's read of the index fails.
C36_IndexDecides == passes > 0 => NewAndDeletedFollowIndex

\* a pass over an enumeration that lacks the id of a record already marked
\* deleted lists the record in `deleted`, leaves it marked deleted and
\* appends one 'deleted' entry for it
C37_Step ==
    passes' # passes =>
        \A id \in DOMAIN files \ DOMAIN seen' :
            files[id].status = "deleted" =>
                /\ id \in ListedIds(deleted_files')
                /\ Occurrences(deleted_files', id) = 1
                /\ files'[id].status = "deleted"
                /\ EntriesOf(Appended, id, "deleted") = 1

\* C37: a record already marked deleted whose id stays absent from the
\* enumeration is placed in `deleted` again, with a further 'deleted'
\* history entry, by every later pass: once per pass, not once per deletion.
C37_DeletedEveryPass == [][C37_Step]_vars

\* a deletion reported by two passes
C37_Witness ==
    \E id \in DOMAIN pre_files \ DOMAIN seen :
        /\ pre_files[id].status = "deleted"
        /\ InDeleted(id)
        /\ EntriesOf(sync_history, id, "deleted") >= 2

\* the remote time of the file is readable, as the persisted one is, and later
RemoteNewer(remote_time, persisted_time) ==
    /\ WellFormed(remote_time)
    /\ WellFormed(persisted_time)
    /\ Instant(remote_time) > Instant(persisted_time)

\* a pass that enumerates a file whose record is marked deleted
C38_Step ==
    passes' # passes =>
        \A id \in DOMAIN files \cap DOMAIN seen' :
            files[id].status = "deleted" =>
                /\ id \notin ListedIds(new_files')
                /\ id \notin ListedIds(deleted_files')
                /\ (id \in ListedIds(modified_files'))
                       = RemoteNewer(seen'[id], files[id].modified_time)
                /\ RemoteNewer(seen'[id], files[id].modified_time)
                       => files'[id].status = "modified"
                /\ ~RemoteNewer(seen'[id], files[id].modified_time)
                       => /\ files'[id].status = "synced"
                          /\ \A k \in 1..Len(Appended) : Appended[k].file_id # id

\* C38: a file whose record is marked deleted and which the enumeration has
\* again is never placed in `new`; it is placed in `modified` iff its remote
\* modified_time, parsed, is strictly later than the persisted one, and
\* otherwise the record returns to synced with no list and no history entry.
C38_DeletedReappears == [][C38_Step]_vars

\* a record marked deleted that a pass returned to synced
C38_Witness ==
    \E id \in DOMAIN pre_files \cap DOMAIN seen :
        /\ pre_files[id].status = "deleted"
        /\ files[id].status = "synced"
        /\ ~InNew(id) /\ ~InModified(id)

\* a record marked deleted that a pass reported as modified
DeletedReappearsNewer ==
    \E id \in DOMAIN pre_files \cap DOMAIN seen :
        /\ pre_files[id].status = "deleted"
        /\ InModified(id)

\* a loop thread begins the execution of a task
BeginsTask == \E l \in LoopThreads : lp_pc[l] = "scan" /\ lp_pc'[l] = "run"

\* C39: once stop() has set running to False the scheduler loop begins no
\* further task execution, not even of the tasks still due in the tick in
\* progress.
C39_NoTaskAfterStop == [][BeginsTask => running]_vars

\* the end of a task's function in the loop, by an exception: last_run stays
\* and next_run becomes the tick's time plus the interval
C40_Step ==
    \A l \in LoopThreads :
        (/\ lp_pc[l] = "run" /\ lp_pc'[l] # "run"
         /\ task_log'[TaskAt(l)].raised # NeverRun) =>
            /\ task_log'[TaskAt(l)].raised = lp_now[l]
            /\ tasks'[TaskAt(l)].last_run = tasks[TaskAt(l)].last_run
            /\ tasks'[TaskAt(l)].next_run = lp_now[l] + tasks[TaskAt(l)].interval

\* the loop is running a task whose execution before, by the loop, raised
RunsAfterRaise(l) ==
    /\ lp_pc[l] = "run"
    /\ Len(task_log[TaskAt(l)].fired) = 2
    /\ task_log[TaskAt(l)].raised = task_log[TaskAt(l)].fired[1][1]
    /\ ~task_log[TaskAt(l)].updated

\* the tick that runs the task again is at least one interval after the
\* tick in which it raised
C40_State ==
    \A l \in LoopThreads :
        RunsAfterRaise(l) =>
            task_log[TaskAt(l)].fired[2][1] >=
                task_log[TaskAt(l)].fired[1][1] + task_log[TaskAt(l)].fired[1][2]

\* C40: when a task's function raises in the scheduler loop, last_run is
\* left as it was and next_run is set to the tick's time plus the interval,
\* so the loop does not run the task again before a tick one full interval
\* later.
C40_FailedTaskWaits == []C40_State /\ [][C40_Step]_vars

\* a task that raised in the loop is run by the loop again
C40_Witness == \E l \in LoopThreads : RunsAfterRaise(l)

====
